---- MODULE Spec2Model ----
(***************************************************************************)
(* Model of the USB-PD specification parser: bookmark titles are parsed    *)
(* into section ids, a parent stack turns the flat outline into a          *)
(* hierarchy, the numbered-section filter prunes it, page ranges are       *)
(* resolved per section and content entries are extracted.                 *)
(*                                                                         *)
(* Strings are sequences of one-character strings, so that the regular     *)
(* expressions, strip(), split('.') and '.'.join() are computed and not    *)
(* assumed.  Python's None in a str-typed field is the value None below.   *)
(***************************************************************************)
EXTENDS Integers, Sequences, FiniteSets, TLC

VARIABLES
    pc,             \* position of the run
    outline,        \* fitz get_toc(): sequence of [level, title, page]
    idx,            \* loop index of the hierarchy builders (1-based)
    pdf,            \* PDFParser._build_hierarchy: [raw, stack, result]
    toc,            \* TOCParser._build_hierarchy: [raw, stack, result]
    usb,            \* USBPDParser._calculate_hierarchy: [raw, stack, result]
    use_composite,  \* SectionFilter.use_composite
    entries,        \* the list handed to SectionFilter.filter_numbered_sections
    filtered,       \* the list it returned
    raised,         \* whether the filter's except branch was taken
    sections,       \* the retained TOC entries handed to content extraction
    total_pages,    \* len(doc)
    ridx,           \* position of the entry whose page range is resolved next
    ranges,         \* the (start, end) pairs resolved so far, per resolver
    toc_entries,    \* ContentExtractor.extract_content(toc_entries)
    texts,          \* per entry, what get_text returns for the pages of its range
    fails,          \* the positions whose _extract_section_content raises
    path,           \* "sequential", "parallel" (content_extractor.py),
                    \* "component" (components/extraction ParallelExtractor),
                    \* "component_sequential" (components/extraction
                    \* ContentExtractor._extract_sequential)
                    \* or "simple" (components.py)
    xi,             \* loop index of _extract_sequential (1-based)
    content_entries,\* the list being filled by the running path
    finished,       \* parallel: the futures done, in completion order
    collected,      \* parallel: how many of them the as_completed loop has taken
    output,         \* what extract_content returned
    toc_file,       \* the TOC JSONL file: [exists, mtime, rows]
    searcher,       \* search.py TOCSearcher: [is_built, entries, word_index,
                    \* last_modified]
    loader_cached,  \* memory_cache holds the generator _load_entries returned
    cli_query,      \* the query of the last search (args[2])
    response,       \* what SearchService.search_toc returned and how
                    \* SearchCommand.execute ended
    filename,       \* the output file name handed to the writers
    opened,         \* the paths opened for writing, with the writer that did
    rejected,       \* the writers whose validator raised
    clock,          \* time.time()
    written,        \* per finished parse run, the rows of the TOC file and of
                    \* the content file it wrote
    at,             \* per operation that opens the PDF, where its call stands
    handles,        \* per operation, the document handles open and not closed
    calls,          \* per operation, the calls made so far
    indexer,        \* search/indexer.py SearchIndexer: [entries, word_index,
                    \* section_index, section_index_lower]
    text_hits,      \* the last QueryProcessor.search_by_text call: [query,
                    \* raised, matches]
    cache,          \* PerformanceCache._cache: key -> timestamp of its value
    access_times,   \* PerformanceCache._access_times: key -> last access
    ctime,          \* time.time() as the cache reads it
    th,             \* per thread, the cache call it is in: [at, key,
                    \* timestamp, victim, after]
    lock,           \* DependencyInjector._lock: "free" or the thread holding it
    bindings,       \* DependencyInjector._bindings: the interfaces bound
    singletons,     \* DependencyInjector._singletons: interface -> instance
    inj,            \* per thread, the injector call it is in: [at, interface,
                    \* singleton, result]
    raw_query,      \* the string handed to QueryValidator.validate_search_query
    validated,      \* what the call did: [done, raised, value]
    cls_lock,       \* ComponentRegistry._lock: "unset" or the lock object,
                    \* named after the thread that made it
    held,           \* per lock object, "free" or the thread holding it
    cls_instance,   \* ComponentRegistry._instance: "None" or the instance,
                    \* named after the thread that made it
    made,           \* the instances made so far
    ctor            \* per thread, the ComponentRegistry() call it is in:
                    \* [at, lk, result]

hvars == <<outline, idx, pdf, toc, usb>>

fvars == <<use_composite, entries, filtered, raised>>

rvars == <<sections, total_pages, ridx, ranges>>

xvars == <<toc_entries, texts, fails, path, xi, content_entries, finished, collected, output>>

svars == <<toc_file, searcher, loader_cached, cli_query, response>>

pathvars == <<filename, opened, rejected>>

wvars == <<clock, written>>

dvars == <<at, handles, calls>>

ivars == <<indexer, text_hits>>

cvars == <<cache, access_times, ctime, th>>

jvars == <<lock, bindings, singletons, inj>>

qvars == <<raw_query, validated>>

nvars == <<cls_lock, held, cls_instance, made, ctor>>

vars == <<pc, hvars, fvars, rvars, xvars, svars, pathvars, wvars, dvars, ivars, cvars, jvars, qvars, nvars>>

-----------------------------------------------------------------------------
(* Bounds *)

MaxOutline == 3

MaxFilterEntries == 2

MaxSections == 4

MaxPages == 8

MaxExtract == 3

MaxRows == 2

MaxMtime == 3

MaxAtoms == 3

MaxClock == 2

MaxRuns == 2

MaxCalls == 2

MaxQueryLen == 3

CacheMaxSize == 2

CacheTtl == 0

MaxCacheClock == 1

LongPages == 12

MaxLongSections == 3

MaxLines == 2

-----------------------------------------------------------------------------
(* Characters and strings *)

None == <<"None">>

Digits == {"0", "1", "2", "3", "4", "5", "6", "7", "8", "9"}

Whitespace == {" ", "\n"}

Min(a, b) == IF a <= b THEN a ELSE b

Max(a, b) == IF a >= b THEN a ELSE b

Last(s) == s[Len(s)]

\* the last index of the run of characters of set cs that starts at i, i-1 if none
RECURSIVE RunEnd(_, _, _)
RunEnd(s, i, cs) ==
    IF i <= Len(s) /\ s[i] \in cs THEN RunEnd(s, i + 1, cs) ELSE i - 1

\* str.strip()
RECURSIVE LStrip(_)
LStrip(s) ==
    IF s # <<>> /\ Head(s) \in Whitespace THEN LStrip(Tail(s)) ELSE s

RECURSIVE RStrip(_)
RStrip(s) ==
    IF s # <<>> /\ Last(s) \in Whitespace THEN RStrip(SubSeq(s, 1, Len(s) - 1)) ELSE s

Strip(s) == RStrip(LStrip(s))

\* the greedy match of (?:\.\d+)* after position e: the last index matched
RECURSIVE DottedRunEnd(_, _)
DottedRunEnd(s, e) ==
    IF e + 2 <= Len(s) /\ s[e + 1] = "." /\ s[e + 2] \in Digits
    THEN DottedRunEnd(s, RunEnd(s, e + 2, Digits))
    ELSE e

\* the greedy match of \d+(?:\.\d+)* at the start of s: its last index, 0 if none
NumericPrefixEnd(s) ==
    LET d == RunEnd(s, 1, Digits)
    IN  IF d = 0 THEN 0 ELSE DottedRunEnd(s, d)

\* re.match(r'^\d+(\.\d+)*$', s)
MatchesSectionPattern(s) == s # <<>> /\ NumericPrefixEnd(s) = Len(s)

\* str.split('.')
RECURSIVE SplitDot(_)
SplitDot(s) ==
    LET k == RunEnd(s, 1, {c \in {s[i] : i \in 1..Len(s)} : c # "."})
    IN  IF k = Len(s) THEN <<s>>
        ELSE <<SubSeq(s, 1, k)>> \o SplitDot(SubSeq(s, k + 2, Len(s)))

\* '.'.join(parts)
RECURSIVE JoinDot(_)
JoinDot(parts) ==
    IF parts = <<>> THEN <<>>
    ELSE IF Len(parts) = 1 THEN parts[1]
    ELSE parts[1] \o <<".">> \o JoinDot(Tail(parts))

\* '\n'.join(parts)
RECURSIVE JoinLines(_)
JoinLines(parts) ==
    IF parts = <<>> THEN <<>>
    ELSE IF Len(parts) = 1 THEN parts[1]
    ELSE parts[1] \o <<"\n">> \o JoinLines(Tail(parts))

\* str.replace('.', '')
RECURSIVE RemoveDots(_)
RemoveDots(s) ==
    IF s = <<>> THEN <<>>
    ELSE IF Head(s) = "." THEN RemoveDots(Tail(s))
    ELSE <<Head(s)>> \o RemoveDots(Tail(s))

\* str.isdigit()
IsDigitString(s) == s # <<>> /\ \A i \in 1..Len(s) : s[i] \in Digits

-----------------------------------------------------------------------------
(* Section-ID parser *)

\* re.match(r'^(\d+(?:\.\d+)*)\s+(.+)$', title.strip()): <<section_id, title>>
ParseTitle(raw) ==
    LET t == Strip(raw)
        e == NumericPrefixEnd(t)
        w == RunEnd(t, e + 1, Whitespace)
    IN  IF e > 0 /\ w > e /\ w < Len(t)
        THEN <<SubSeq(t, 1, e), SubSeq(t, w + 1, Len(t))>>
        ELSE <<<<>>, t>>

\* TOCEntry.get_depth
GetDepth(section_id) ==
    IF section_id # <<>> THEN Len(SplitDot(section_id)) ELSE 0

TOCEntry(section_id, title, page, level, parent_id) ==
    [section_id |-> section_id, title |-> title, page |-> page,
     level |-> level, parent_id |-> parent_id]

\* PDFParser._create_toc_entry
PdfCreateTocEntry(b) ==
    LET m == ParseTitle(b.title)
    IN  TOCEntry(m[1], m[2], b.page, b.level, None)

\* TOCParser._create_entry
TocCreateEntry(b) ==
    LET m == ParseTitle(b.title)
    IN  TOCEntry(m[1], m[2], Max(1, b.page), Max(0, b.level), None)

\* USBPDParser.extract_outline_bookmarks (the entry dict of one bookmark)
UsbCreateEntry(b) ==
    LET m == ParseTitle(b.title)
    IN  TOCEntry(m[1], m[2], b.page, b.level, None)

-----------------------------------------------------------------------------
(* Hierarchy builder *)

\* the pop loop with > in place of >=
RECURSIVE PopStackOffByOne(_, _)
PopStackOffByOne(stack, level) ==
    IF Len(stack) > level
    THEN PopStackOffByOne(SubSeq(stack, 1, Len(stack) - 1), level)
    ELSE stack

\* while len(parent_stack) >= calculated_level: parent_stack.pop()
RECURSIVE PopStack(_, _)
PopStack(stack, level) ==
    IF Len(stack) >= level
    THEN PopStack(SubSeq(stack, 1, Len(stack) - 1), level)
    ELSE stack

\* parent_stack[:max(0, depth-1)]
SliceStack(stack, depth) == SubSeq(stack, 1, Min(Len(stack), Max(0, depth - 1)))

\* one iteration of PDFParser._build_hierarchy on entry e
PdfBuildStep(st, e) ==
    IF e.section_id = <<>> THEN st
    ELSE LET calculated_level == GetDepth(e.section_id)
             stack == PopStack(st.stack, calculated_level)
             parent == IF stack # <<>> THEN Last(stack) ELSE e.parent_id
         IN  [st EXCEPT
                 !.result = Append(@, [e EXCEPT !.level = calculated_level,
                                                !.parent_id = parent]),
                 !.stack = Append(stack, e.section_id)]

\* one iteration of TOCParser._build_hierarchy on entry e
TocBuildStep(st, e) ==
    IF e.section_id = <<>> \/ ~IsDigitString(RemoveDots(e.section_id)) THEN st
    ELSE LET depth == Len(SplitDot(e.section_id))
             stack == SliceStack(st.stack, depth)
             parent == IF stack # <<>> THEN Last(stack) ELSE None
         IN  [st EXCEPT
                 !.result = Append(@, [e EXCEPT !.parent_id = parent]),
                 !.stack = Append(stack, e.section_id)]

\* one iteration of USBPDParser._calculate_hierarchy on entry e
UsbBuildStep(st, e) ==
    IF e.section_id = <<>> THEN st
    ELSE LET level == Len(SplitDot(e.section_id))
             stack == PopStack(st.stack, level)
             parent == IF stack # <<>> THEN Last(stack) ELSE None
         IN  [st EXCEPT
                 !.result = Append(@, [e EXCEPT !.level = level,
                                                !.parent_id = parent]),
                 !.stack = Append(stack, e.section_id)]

-----------------------------------------------------------------------------
(* Numbered-section filter *)

ContentMinTitleLength == 2

LevelFilterMin == 1

LevelFilterMax == 8

\* Python truthiness of an Optional[str]
Truthy(s) == s # None /\ s # <<>>

\* NumberedSectionFilter._is_numbered_section
IsNumberedSection(e) == Truthy(e.section_id) /\ MatchesSectionPattern(e.section_id)

\* The filters work on the entry objects of the caller's list: heap is that list,
\* a filtered list is a sequence of positions in it.
Positions(heap) == [i \in 1..Len(heap) |-> i]

InSeq(x, s) == \E i \in 1..Len(s) : s[i] = x

\* NumberedSectionFilter.filter: <<heap, kept positions>>
NumberedSectionFilter(heap, ps) ==
    LET kept == SelectSeq(ps, LAMBDA k : IsNumberedSection(heap[k]))
    IN  << [i \in 1..Len(heap) |->
              IF InSeq(i, kept) /\ ~Truthy(heap[i].parent_id)
              THEN [heap[i] EXCEPT !.parent_id = None]
              ELSE heap[i]],
           kept >>

\* ContentFilter.filter raises AttributeError on title.strip() of a None title
ContentFilterRaises(heap, ps) == \E i \in 1..Len(ps) : heap[ps[i]].title = None

\* ContentFilter.filter (min_title_length = 2, exclude_empty = True)
ContentFilter(heap, ps) ==
    SelectSeq(ps, LAMBDA k : ~(Len(Strip(heap[k].title)) < ContentMinTitleLength)
                             /\ ~(Strip(heap[k].title) = <<>>))

\* LevelFilter.filter (max_level = 8, min_level = 1)
LevelFilter(heap, ps) ==
    SelectSeq(ps, LAMBDA k : LevelFilterMin <= heap[k].level
                             /\ heap[k].level <= LevelFilterMax)

\* SectionFilter._find_closest_parent, the loop from i downwards
RECURSIVE ClosestParentFrom(_, _, _)
ClosestParentFrom(parts, i, available_ids) ==
    IF i < 1 THEN None
    ELSE IF JoinDot(SubSeq(parts, 1, i)) \in available_ids
         THEN JoinDot(SubSeq(parts, 1, i))
         ELSE ClosestParentFrom(parts, i - 1, available_ids)

\* SectionFilter._find_closest_parent
FindClosestParent(section_id, available_ids) ==
    IF section_id = <<>> \/ ~InSeq(".", section_id) THEN None
    ELSE LET parts == SplitDot(section_id)
         IN  ClosestParentFrom(parts, Len(parts) - 1, available_ids)

\* SectionFilter._ensure_hierarchy_consistency: the heap after the repair
EnsureHierarchyConsistency(heap, ps) ==
    LET section_ids == {heap[ps[i]].section_id : i \in 1..Len(ps)}
    IN  [i \in 1..Len(heap) |->
            IF InSeq(i, ps) /\ Truthy(heap[i].parent_id)
               /\ heap[i].parent_id \notin section_ids
            THEN [heap[i] EXCEPT
                     !.parent_id = FindClosestParent(heap[i].section_id, section_ids)]
            ELSE heap[i]]

\* SectionFilter.filter_numbered_sections: [out: the returned list, raised:
\* whether the except branch returned the caller's list]
FilterNumberedSections(es, composite) ==
    IF es = <<>> THEN [out |-> <<>>, raised |-> FALSE]
    ELSE LET n == NumberedSectionFilter(es, Positions(es))
         IN  IF composite /\ ContentFilterRaises(n[1], n[2])
             THEN [out |-> n[1], raised |-> TRUE]
             ELSE LET ps == IF composite
                            THEN LevelFilter(n[1], ContentFilter(n[1], n[2]))
                            ELSE n[2]
                      h == EnsureHierarchyConsistency(n[1], ps)
                  IN  [out |-> [i \in 1..Len(ps) |-> h[ps[i]]],
                       raised |-> FALSE]

-----------------------------------------------------------------------------
(* Page-range resolver *)

MajorLevel == 2

MinCoverage == 2

CoverageSpan == 3

LookaheadSpan == 10

\* the positions after index whose entry is a peer or an ancestor of entry
PeersAfter(entry, all_entries, index) ==
    {i \in (index + 1)..Len(all_entries) : all_entries[i].level <= entry.level}

\* the least element of a non-empty set of positions
First(S) == CHOOSE i \in S : \A j \in S : i <= j

\* components/extraction ContentExtractor._find_section_end
FindSectionEnd(entry, all_entries, index, page_count) ==
    LET peers == PeersAfter(entry, all_entries, index)
    IN  IF peers # {}
        THEN Max(entry.page, all_entries[First(peers)].page - 1)
        ELSE Min(entry.page + LookaheadSpan, page_count)

\* components/extraction ContentExtractor._get_page_range (index is 1-based)
GetPageRange(entry, all_entries, index, page_count) ==
    LET start == Max(1, entry.page)
        end == IF index + 1 <= Len(all_entries)
               THEN IF all_entries[index + 1].level <= entry.level
                    THEN Max(start, all_entries[index + 1].page - 1)
                    ELSE FindSectionEnd(entry, all_entries, index, page_count)
               ELSE Max(start, page_count)
    IN  IF end - start < MinCoverage /\ entry.level <= MajorLevel
        THEN <<start, Min(start + CoverageSpan, page_count)>>
        ELSE <<start, end>>

\* content_extractor.py ContentExtractor._calculate_page_range
CalculatePageRange(section, all_sections, index, pages) ==
    LET start_page == Max(1, section.page)
        end_page == IF index + 1 <= Len(all_sections)
                    THEN Min(all_sections[index + 1].page - 1, pages)
                    ELSE pages
    IN  <<start_page, end_page>>

\* components.py ContentExtractor._get_page_range
SimplePageRange(entry, all_entries, index, pages) ==
    LET start == Max(1, entry.page)
        end == IF index + 1 <= Len(all_entries)
               THEN all_entries[index + 1].page - 1
               ELSE pages
    IN  <<start, end>>

\* ranges.get: components/extraction, ranges.calc: content_extractor.py,
\* ranges.simple: components.py
EmptyRanges == [get |-> <<>>, calc |-> <<>>, simple |-> <<>>]

-----------------------------------------------------------------------------
(* Search: search.py SearchIndex and TOCSearcher *)

\* the letters that str.lower() changes, with their lower-case forms
UpperToLower ==
    << <<"A", "a">>, <<"B", "b">>, <<"R", "r">>, <<"Z", "z">>, <<"S", "s">>,
       <<"N", "n">> >>

LowerChar(c) ==
    IF \E k \in 1..Len(UpperToLower) : UpperToLower[k][1] = c
    THEN UpperToLower[CHOOSE k \in 1..Len(UpperToLower) : UpperToLower[k][1] = c][2]
    ELSE c

\* str.lower()
Lower(s) == [i \in 1..Len(s) |-> LowerChar(s[i])]

\* the characters \w matches
WordChars ==
    Digits \cup {"a", "b", "r", "v", "z", "A", "B", "R", "Z", "_",
                 "S", "N", "c", "e", "i", "l", "n", "o", "s", "t", "x"}

\* re.findall(r'\b\w+\b', text): the maximal runs of word characters
RECURSIVE WordRuns(_)
WordRuns(text) ==
    IF text = <<>> THEN <<>>
    ELSE IF Head(text) \notin WordChars THEN WordRuns(Tail(text))
    ELSE LET k == RunEnd(text, 1, WordChars)
         IN  <<SubSeq(text, 1, k)>> \o WordRuns(SubSeq(text, k + 1, Len(text)))

\* SearchIndex._tokenize: the words of the lower-cased text longer than one
\* character (PerformanceOptimizer.WORD_PATTERN and
\* QueryProcessor._tokenize_query, \b\w{2,}\b, find the same words)
Tokenize(text) == SelectSeq(WordRuns(Lower(text)), LAMBDA w : Len(w) > 1)

\* the elements of a sequence
Range(seq) == {seq[i] : i \in 1..Len(seq)}

\* needle in haystack, for strings
IsSubstring(needle, haystack) ==
    \E i \in 0..(Len(haystack) - Len(needle)) :
        SubSeq(haystack, i + 1, i + Len(needle)) = needle

\* SearchIndex._add_to_index: the postings (term, entry position) after the
\* call
AddToIndex(word_index, term, entry_idx) ==
    LET normalized_term == Strip(Lower(term))
    IN  IF normalized_term # <<>>
        THEN word_index \cup {<<normalized_term, entry_idx>>}
        ELSE word_index

\* SearchIndex.build_index: section ids and title words of every entry
SearchIndexBuild(index_entries) ==
    UNION { (IF Truthy(index_entries[i].section_id)
             THEN AddToIndex({}, index_entries[i].section_id, i) ELSE {})
            \cup
            (IF Truthy(index_entries[i].title)
             THEN UNION { AddToIndex({}, w, i) : w \in Range(Tokenize(index_entries[i].title)) }
             ELSE {})
          : i \in 1..Len(index_entries) }

\* word_index.get(term, set())
Postings(word_index, term) == {p[2] : p \in {q \in word_index : q[1] = term}}

\* SearchIndex.search: the positions of the matching entries
SearchIndexSearch(index, query) ==
    IF ~index.is_built THEN {}
    ELSE LET query_lower == Strip(Lower(query))
             query_words == Tokenize(query)
         IN  IF \E p \in index.word_index : p[1] = query_lower
             THEN Postings(index.word_index, query_lower)
             ELSE IF query_words = <<>> THEN {}
             ELSE {i \in 1..Len(index.entries) :
                      \A w \in Range(query_words) : i \in Postings(index.word_index, w)}

\* int(part) for a string of digits
RECURSIVE ParseInt(_)
ParseInt(ds) ==
    IF ds = <<>> THEN 0
    ELSE 10 * ParseInt(SubSeq(ds, 1, Len(ds) - 1))
         + (CHOOSE d \in 0..9 : ToString(d) = ds[Len(ds)])

\* the characters of the model in the order of their code points
CharOrder ==
    <<"\n", " ", ".", "0", "1", "2", "3", "4", "5", "6", "7", "8", "9",
      "A", "B", "R", "Z", "_", "a", "b", "r", "v", "z">>

Ord(c) == CHOOSE k \in 1..Len(CharOrder) : CharOrder[k] = c

\* TOCSearcher._sort_key: (inf,) for an empty id, the tuple of the numeric
\* parts, or (inf, section_id) when a part is no number
SortKey(section_id) ==
    IF section_id = <<>> THEN [inf |-> TRUE, rest |-> <<>>]
    ELSE LET parts == SplitDot(section_id)
         IN  IF \A k \in 1..Len(parts) : IsDigitString(parts[k])
             THEN [inf |-> FALSE, rest |-> [k \in 1..Len(parts) |-> ParseInt(parts[k])]]
             ELSE [inf |-> TRUE, rest |-> <<[k \in 1..Len(section_id) |-> Ord(section_id[k])]>>]

\* tuple comparison a < b for sequences of numbers
RECURSIVE LexLess(_, _)
LexLess(a, b) ==
    IF b = <<>> THEN FALSE
    ELSE IF a = <<>> THEN TRUE
    ELSE IF Head(a) # Head(b) THEN Head(a) < Head(b)
    ELSE LexLess(Tail(a), Tail(b))

\* a < b for sort keys: inf is above every number, a string part is compared
\* by code points
KeyLess(a, b) ==
    IF a.inf /\ b.inf
    THEN IF a.rest = <<>> THEN b.rest # <<>>
         ELSE IF b.rest = <<>> THEN FALSE
         ELSE LexLess(a.rest[1], b.rest[1])
    ELSE IF a.inf THEN FALSE
    ELSE IF b.inf THEN TRUE
    ELSE LexLess(a.rest, b.rest)

\* list.sort(key=_sort_key): stable insertion of e into a sorted list
RECURSIVE InsertSorted(_, _)
InsertSorted(sorted, e) ==
    IF sorted = <<>> THEN <<e>>
    ELSE IF KeyLess(SortKey(e.section_id), SortKey(Head(sorted).section_id))
         THEN <<e>> \o sorted
         ELSE <<Head(sorted)>> \o InsertSorted(Tail(sorted), e)

RECURSIVE SortBySectionId(_)
SortBySectionId(matches) ==
    IF matches = <<>> THEN <<>>
    ELSE InsertSorted(SortBySectionId(SubSeq(matches, 1, Len(matches) - 1)),
                      matches[Len(matches)])

\* TOCSearcher._indexed_search: the matching entries by position, then sorted
\* by section id
IndexedSearch(index, query) ==
    LET matching_indices == SearchIndexSearch(index, query)
        positions == SelectSeq([i \in 1..Len(index.entries) |-> i],
                               LAMBDA i : i \in matching_indices)
    IN  SortBySectionId([k \in 1..Len(positions) |-> index.entries[positions[k]]])

\* TOCSearcher._matches_query
MatchesQuery(entry, query_lower) ==
    \/ IsSubstring(query_lower, Lower(entry.section_id))
    \/ IsSubstring(query_lower, Lower(entry.title))

\* TOCSearcher._linear_search over the entries _load_entries yields
LinearSearch(loaded, search_query) ==
    SortBySectionId(SelectSeq(loaded, LAMBDA e : MatchesQuery(e, Lower(search_query))))

\* TOCSearcher.__init__
NewSearcher == [is_built |-> FALSE, entries |-> <<>>, word_index |-> {}, last_modified |-> 0]

\* TOCSearcher._load_entries behind @cached: the first call makes a generator
\* that reads the file; a later call gets the same generator back from
\* memory_cache, already consumed
LoadEntries(file, cached) == IF cached THEN <<>> ELSE file.rows

\* TOCSearcher._ensure_index_current; io_error: opening the file raises
EnsureIndexCurrent(s, file, cached, io_error) ==
    IF ~file.exists THEN [ok |-> FALSE, searcher |-> s, cached |-> cached]
    ELSE IF file.mtime > s.last_modified \/ ~s.is_built
    THEN IF ~cached /\ io_error
         THEN [ok |-> FALSE, searcher |-> s, cached |-> TRUE]
         ELSE LET loaded == LoadEntries(file, cached)
              IN  [ok |-> TRUE,
                   searcher |-> [is_built |-> TRUE,
                                 entries |-> loaded,
                                 word_index |-> SearchIndexBuild(loaded),
                                 last_modified |-> file.mtime],
                   cached |-> TRUE]
    ELSE [ok |-> TRUE, searcher |-> s, cached |-> cached]

\* the messages of the failure results
NotFoundRunParseFirst == "not found. Run parse first."

InvalidSearchQuery == "Invalid search query"

\* TOCSearcher.search_with_results: the dict it returns, and the searcher and
\* the cache after the call
SearchWithResults(s, file, cached, search_query, io_error) ==
    IF ~file.exists
    THEN [result |-> [success |-> FALSE, error |-> NotFoundRunParseFirst,
                      matches |-> <<>>, keys |-> 3],
          searcher |-> s, cached |-> cached]
    ELSE LET e == EnsureIndexCurrent(s, file, cached, io_error)
         IN  [result |-> [success |-> TRUE, error |-> "",
                          matches |-> IF e.ok
                                      THEN IndexedSearch(e.searcher, search_query)
                                      ELSE LinearSearch(LoadEntries(file, e.cached),
                                                        search_query),
                          keys |-> 4],
              searcher |-> e.searcher, cached |-> e.cached]

\* constants.py MIN_QUERY_LENGTH, as validators.py writes it
MinQueryLength == 2

\* the validator accepting every non-empty query
ValidQueryNonEmpty(q) == q # <<>> /\ Len(Strip(q)) >= 1

\* validators.py InputValidator.validate_search_query does not raise
ValidQuery(q) == q # <<>> /\ Len(Strip(q)) >= MinQueryLength

\* validators.py InputValidator.validate_search_query: what it returns
ValidateSearchQuery(q) == Strip(q)

\* no search was made
NoResponse ==
    [success |-> FALSE, error |-> "", validated |-> <<>>,
     matches |-> [success |-> FALSE, error |-> "", matches |-> <<>>, keys |-> 0],
     count |-> 0, returned |-> FALSE, code |-> 0]

\* SearchService.search_toc followed by SearchCommand.execute: the dict of
\* search_with_results becomes the 'matches' of a success result, and the
\* command's loop over it indexes the dict's keys (strings) by 'section_id',
\* which raises TypeError out of execute (returned = FALSE, exit status 1)
SearchToc(s, file, cached, q, io_error) ==
    IF ~ValidQuery(q)
    THEN [response |-> [success |-> FALSE, error |-> InvalidSearchQuery,
                        validated |-> <<>>, matches |-> NoResponse.matches,
                        count |-> 0, returned |-> TRUE, code |-> 1],
          searcher |-> s, cached |-> cached]
    ELSE LET r == SearchWithResults(s, file, cached, ValidateSearchQuery(q), io_error)
         IN  [response |-> [success |-> TRUE, error |-> "",
                            validated |-> ValidateSearchQuery(q),
                            matches |-> r.result, count |-> r.result.keys,
                            returned |-> r.result.keys = 0,
                            code |-> IF r.result.keys = 0 THEN 0 ELSE 1],
              searcher |-> r.searcher, cached |-> r.cached]

-----------------------------------------------------------------------------
(* Inputs *)

\* raw bookmark titles, as the PDF outline carries them
TitlePool ==
    { <<"1", " ", "I", "n">>,
      <<"1", ".", "1", " ", "O", "v">>,
      <<"1", ".", "1", ".", "1", " ", "D", "e">>,
      <<"1", ".", "2", " ", "S">>,
      <<" ", "2", " ", " ", "R", "q", " ">>,
      <<"A", "n">>,
      <<"A", ".", "1", " ", "A", "p">> }

NativeLevels == {1, 2}

\* every sequence over S of length at most n
RECURSIVE SeqsUpTo(_, _)
SeqsUpTo(S, n) ==
    IF n = 0 THEN {<<>>}
    ELSE LET shorter == SeqsUpTo(S, n - 1)
         IN  shorter \cup {Append(s, x) : s \in shorter, x \in S}

\* an outline: bookmark i is on page i
Outlines ==
    { [i \in 1..Len(s) |-> [level |-> s[i][1], title |-> s[i][2], page |-> i]] :
        s \in SeqsUpTo(NativeLevels \X TitlePool, MaxOutline) }

EmptyBuild == [raw |-> <<>>, stack |-> <<>>, result |-> <<>>]

\* entries a caller may hand to the filter: any section id, a title that may
\* be short or missing (None), any level, any parent reference
FilterSectionIds ==
    { <<>>, <<"1">>, <<"1", ".", "1">>, <<"1", ".", "1", ".", "1">>, <<"A", ".", "1">> }

FilterTitleLevels ==
    { <<<<"A", "b">>, 2>>, <<<<"A">>, 2>>, <<None, 2>>, <<<<"A", "b">>, 9>> }

FilterParentIds == { None, <<>>, <<"1">>, <<"7">> }

FilterEntryPool ==
    { TOCEntry(sid, tl[1], 1, tl[2], par) :
        sid \in FilterSectionIds, tl \in FilterTitleLevels, par \in FilterParentIds }

-----------------------------------------------------------------------------
(* The parse run: outline -> entries -> hierarchy -> filter *)

\* no page range resolved, no document
RangeIdle ==
    /\ sections = <<>>
    /\ total_pages = 1
    /\ ridx = 1
    /\ ranges = EmptyRanges

\* no content extraction started
ExtractIdle ==
    /\ toc_entries = <<>>
    /\ texts = <<>>
    /\ fails = {}
    /\ path = "sequential"
    /\ xi = 1
    /\ content_entries = <<>>
    /\ finished = <<>>
    /\ collected = 0
    /\ output = <<>>

\* a fresh searcher and no TOC file
SearchIdle ==
    /\ toc_file = [exists |-> FALSE, mtime |-> 0, rows |-> <<>>]
    /\ searcher = NewSearcher
    /\ loader_cached = FALSE
    /\ cli_query = <<>>
    /\ response = NoResponse

\* SearchIndexer.__init__
NewIndexer ==
    [entries |-> <<>>, word_index |-> {}, section_index |-> {},
     section_index_lower |-> {}]

\* no text search made
NoTextHits == [query |-> <<>>, raised |-> FALSE, matches |-> {}]

\* a fresh SearchIndexer, no query made
IndexIdle ==
    /\ indexer = NewIndexer
    /\ text_hits = NoTextHits

\* the threads that share one PerformanceCache
Threads == {"t1", "t2"}

\* a thread outside any cache call
IdleThread == [at |-> "idle", key |-> "", timestamp |-> 0, victim |-> "", after |-> "idle"]

\* PerformanceCache.__init__: both dicts empty
CacheIdle ==
    /\ cache = << >>
    /\ access_times = << >>
    /\ ctime = 0
    /\ th = [t \in Threads |-> IdleThread]

\* a thread outside any injector call
IdleCaller == [at |-> "idle", interface |-> "", singleton |-> FALSE, result |-> "none"]

\* ApplicationContext.__init__: the injector after _setup_default_bindings
InjectorIdle ==
    /\ lock = "free"
    /\ bindings = {"ProcessorFactory", "ServiceFactory", "InputValidator"}
    /\ singletons = [i \in {"InputValidator"} |-> "None"]
    /\ inj = [t \in Threads |-> IdleCaller]

\* validate_search_query not called
NotValidated == [done |-> FALSE, raised |-> FALSE, value |-> <<>>]

\* no query handed to the validator
QueryIdle ==
    /\ raw_query = <<>>
    /\ validated = NotValidated

\* a thread outside any ComponentRegistry() call
NotConstructing == [at |-> "idle", lk |-> "unset", result |-> "None"]

\* the class as its definition leaves it: no _lock attribute, _instance None
SingletonIdle ==
    /\ cls_lock = "unset"
    /\ held = [l \in Threads |-> "free"]
    /\ cls_instance = "None"
    /\ made = {}
    /\ ctor = [t \in Threads |-> NotConstructing]

\* the operations that open the PDF: USBPDParser.extract_outline_bookmarks,
\* a with-block over PDFParser, src/core.py ParserService.parse_pdf
Openers == {"usb", "pdf", "core"}

\* no operation called, no handle open
DocIdle ==
    /\ at = [o \in Openers |-> "idle"]
    /\ handles = [o \in Openers |-> 0]
    /\ calls = [o \in Openers |-> 0]

\* no parse run finished
WriteIdle ==
    /\ clock = 1
    /\ written = <<>>

\* no file name handed to a writer
PathIdle ==
    /\ filename = <<>>
    /\ opened = {}
    /\ rejected = {}

\* nothing handed to the filter
FilterIdle ==
    /\ use_composite = FALSE
    /\ entries = <<>>
    /\ filtered = <<>>
    /\ raised = FALSE

\* no outline read, no hierarchy built
HierarchyIdle ==
    /\ outline = <<>>
    /\ idx = 0
    /\ pdf = EmptyBuild
    /\ toc = EmptyBuild
    /\ usb = EmptyBuild

Init ==
    /\ pc = "opened"
    /\ outline \in Outlines
    /\ idx = 0
    /\ pdf = EmptyBuild
    /\ toc = EmptyBuild
    /\ usb = EmptyBuild
    /\ use_composite \in BOOLEAN
    /\ entries = <<>>
    /\ filtered = <<>>
    /\ raised = FALSE
    /\ RangeIdle
    /\ ExtractIdle
    /\ SearchIdle
    /\ PathIdle
    /\ WriteIdle
    /\ DocIdle
    /\ IndexIdle
    /\ CacheIdle
    /\ InjectorIdle
    /\ QueryIdle
    /\ SingletonIdle

\* PDFParser._extract_toc_entries, TOCParser.parse, USBPDParser.extract_outline_bookmarks
ExtractTocEntries ==
    /\ pc = "opened"
    /\ pdf' = [pdf EXCEPT !.raw = [i \in 1..Len(outline) |-> PdfCreateTocEntry(outline[i])]]
    /\ toc' = [toc EXCEPT !.raw = [i \in 1..Len(outline) |-> TocCreateEntry(outline[i])]]
    /\ usb' = [usb EXCEPT !.raw = [i \in 1..Len(outline) |-> UsbCreateEntry(outline[i])]]
    /\ idx' = 1
    /\ pc' = "build"
    /\ UNCHANGED <<outline, fvars, rvars, xvars, svars, pathvars, wvars, dvars, ivars, cvars, jvars, qvars, nvars>>

\* one iteration of the three builders' for-loops over the same outline
BuildHierarchyStep ==
    /\ pc = "build"
    /\ idx <= Len(outline)
    /\ pdf' = PdfBuildStep(pdf, pdf.raw[idx])
    /\ toc' = TocBuildStep(toc, toc.raw[idx])
    /\ usb' = UsbBuildStep(usb, usb.raw[idx])
    /\ idx' = idx + 1
    /\ UNCHANGED <<pc, outline, fvars, rvars, xvars, svars, pathvars, wvars, dvars, ivars, cvars, jvars, qvars, nvars>>

\* the builders return; the parse service hands the result to the filter
BuildHierarchyReturn ==
    /\ pc = "build"
    /\ idx > Len(outline)
    /\ entries' = pdf.result
    /\ pc' = "built"
    /\ UNCHANGED <<hvars, use_composite, filtered, raised, rvars, xvars, svars, pathvars, wvars, dvars, ivars, cvars, jvars, qvars, nvars>>

\* SectionFilter.filter_numbered_sections(entries)
FilterSections ==
    /\ pc = "built"
    /\ LET r == FilterNumberedSections(entries, use_composite)
       IN  /\ filtered' = r.out
           /\ raised' = r.raised
    /\ pc' = "filtered"
    /\ UNCHANGED <<hvars, use_composite, entries, rvars, xvars, svars, pathvars, wvars, dvars, ivars, cvars, jvars, qvars, nvars>>

Next ==
    \/ ExtractTocEntries
    \/ BuildHierarchyStep
    \/ BuildHierarchyReturn
    \/ FilterSections

Spec == Init /\ [][Next]_vars

-----------------------------------------------------------------------------
(* Properties of the hierarchy builder *)

\* the number of dot-separated components of a section id
Components(section_id) ==
    Cardinality({i \in 1..Len(section_id) : section_id[i] = "."}) + 1

ParentIds(result) == [i \in 1..Len(result) |-> result[i].parent_id]

\* what one builder iteration must do to the builder state b (b2 afterwards)
\* for the raw entry e
StepFollowsContract(b, b2, e) ==
    IF e.section_id = <<>>
    THEN b2.stack = b.stack /\ b2.result = b.result
    ELSE LET d == Components(e.section_id)
             cut == SubSeq(b.stack, 1, Min(Len(b.stack), d - 1))
         IN  /\ Len(b2.result) = Len(b.result) + 1
             /\ SubSeq(b2.result, 1, Len(b.result)) = b.result
             /\ Last(b2.result).section_id = e.section_id
             /\ Last(b2.result).parent_id = (IF cut = <<>> THEN None ELSE Last(cut))
             /\ b2.stack = Append(cut, e.section_id)

BuildStepContract ==
    (pc = "build" /\ idx <= Len(outline) /\ idx' = idx + 1) =>
        /\ StepFollowsContract(pdf, pdf', pdf.raw[idx])
        /\ StepFollowsContract(toc, toc', toc.raw[idx])
        /\ StepFollowsContract(usb, usb', usb.raw[idx])
        /\ ParentIds(pdf'.result) = ParentIds(toc'.result)
        /\ ParentIds(usb'.result) = ParentIds(toc'.result)

\* C1: every builder iteration drops an entry with an empty section_id and
\* leaves the stack alone; otherwise it cuts the stack to at most d-1
\* elements (d the number of dot-separated components), gives the entry the
\* top of the cut stack as parent_id (None when it is empty) and pushes the
\* section_id; the pop-loop builders and the slice builder give every entry
\* the same parent_id.
C1_ParentFromCutStack == [][BuildStepContract]_vars

\* C1 witness: the third entry took its parent from a stack that had to be
\* cut below the second entry, in the pop-loop and in the slice builder
C1_Witness ==
    /\ pc = "built"
    /\ Len(outline) = 3
    /\ Len(pdf.result) = 3
    /\ pdf.result[2].parent_id = pdf.result[1].section_id
    /\ pdf.result[3].parent_id = pdf.result[1].section_id
    /\ pdf.result[2].section_id # pdf.result[3].section_id
    /\ ParentIds(toc.result) = ParentIds(pdf.result)

\* C2: in the filtered hierarchy an entry whose parent_id names an entry of
\* the same output is exactly one level below that entry.
C2_ParentOneLevelUp ==
    pc = "filtered" =>
        \A i, j \in 1..Len(filtered) :
            (filtered[i].parent_id # None
             /\ filtered[i].parent_id = filtered[j].section_id)
            => filtered[i].level = filtered[j].level + 1

LevelsAreDepths(result) ==
    \A i \in 1..Len(result) : result[i].level = Components(result[i].section_id)

\* C3: every entry a hierarchy builder retains has level equal to the number
\* of dot-separated components of its section_id, whatever the bookmark's
\* own depth was.
C3_LevelIsDepth ==
    /\ LevelsAreDepths(pdf.result)
    /\ LevelsAreDepths(toc.result)
    /\ LevelsAreDepths(usb.result)

-----------------------------------------------------------------------------
(* The filter on its own: any list of entries *)

InitFilter ==
    /\ pc = "built"
    /\ HierarchyIdle
    /\ RangeIdle
    /\ ExtractIdle
    /\ SearchIdle
    /\ PathIdle
    /\ WriteIdle
    /\ DocIdle
    /\ IndexIdle
    /\ CacheIdle
    /\ InjectorIdle
    /\ QueryIdle
    /\ SingletonIdle
    /\ use_composite \in BOOLEAN
    /\ entries \in SeqsUpTo(FilterEntryPool, MaxFilterEntries)
    /\ filtered = <<>>
    /\ raised = FALSE

NextFilter == FilterSections

SpecFilter == InitFilter /\ [][NextFilter]_vars

-----------------------------------------------------------------------------
(* Properties of the numbered-section filter *)

\* s fully matches ^\d+(\.\d+)*$
NumericDotted(s) ==
    /\ s # <<>>
    /\ s # None
    /\ \A i \in 1..Len(s) : s[i] \in Digits \cup {"."}
    /\ s[1] # "."
    /\ s[Len(s)] # "."
    /\ \A i \in 1..(Len(s) - 1) : ~(s[i] = "." /\ s[i + 1] = ".")

\* C4: every entry the numbered-section filter returns has a non-empty
\* section_id that fully matches ^\d+(\.\d+)*$, on every path through
\* filter_numbered_sections, the one taken when filtering raises included.
C4_FilterPurity ==
    pc = "filtered" =>
        \A i \in 1..Len(filtered) : NumericDotted(filtered[i].section_id)

\* an entry without its parent reference
Identity(e) == <<e.section_id, e.title, e.page, e.level>>

\* C5: the filter the parse pipeline uses (use_composite = True) returns
\* exactly the input entries whose section_id is numeric-dotted, each once and
\* in input order, whatever their title or level.
C5_KeepsExactlyNumbered ==
    (pc = "filtered" /\ use_composite) =>
        LET kept == SelectSeq(entries, LAMBDA e : NumericDotted(e.section_id))
        IN  [i \in 1..Len(filtered) |-> Identity(filtered[i])]
                = [i \in 1..Len(kept) |-> Identity(kept[i])]

\* the proper dotted prefixes of a section id
DottedPrefixes(section_id) ==
    {SubSeq(section_id, 1, k - 1) : k \in {i \in 1..Len(section_id) : section_id[i] = "."}}

\* the longest proper dotted prefix of section_id that is in ids, None if none is
LongestPrefixIn(section_id, ids) ==
    LET present == DottedPrefixes(section_id) \cap ids
    IN  IF present = {} THEN None
        ELSE CHOOSE p \in present : \A q \in present : Len(q) <= Len(p)

\* C6: after filter_numbered_sections every returned entry's parent_id is
\* None or the section_id of a returned entry; an entry whose original parent
\* is absent from the returned list gets the longest proper dotted prefix of
\* its own section_id that is present there, or None.
C6_ParentsResolved ==
    pc = "filtered" =>
        LET ids == {filtered[j].section_id : j \in 1..Len(filtered)}
        IN  \A i \in 1..Len(filtered) :
                /\ filtered[i].parent_id = None \/ filtered[i].parent_id \in ids
                /\ \E k \in 1..Len(entries) :
                      /\ Identity(entries[k]) = Identity(filtered[i])
                      /\ (Truthy(entries[k].parent_id) /\ entries[k].parent_id \notin ids)
                            => filtered[i].parent_id
                                   = LongestPrefixIn(filtered[i].section_id, ids)

-----------------------------------------------------------------------------
(* The page-range resolvers on any retained entry list of a document *)

SectionLevels == {1, 2, 3}

\* the pages a heading of the long document starts on
LongStarts == {1, 2, LongPages - 1, LongPages}

\* headings are met in page order
InDocumentOrder(ps, n) == \A i \in 1..(n - 1) : ps[i] <= ps[i + 1]

InitRange ==
    /\ pc = "ranges"
    /\ HierarchyIdle
    /\ FilterIdle
    /\ ExtractIdle
    /\ SearchIdle
    /\ PathIdle
    /\ WriteIdle
    /\ DocIdle
    /\ IndexIdle
    /\ CacheIdle
    /\ InjectorIdle
    /\ QueryIdle
    /\ SingletonIdle
    /\ total_pages \in {MaxPages - 2, MaxPages}
    /\ \E n \in 1..MaxSections :
          \E ls \in [1..n -> SectionLevels], ps \in [1..n -> 1..total_pages] :
              /\ InDocumentOrder(ps, n)
              /\ sections = [i \in 1..n |-> [level |-> ls[i], page |-> ps[i]]]
    /\ ridx = 1
    /\ ranges = EmptyRanges

\* the page range of entry ridx, as each resolver computes it
ResolvePageRange ==
    /\ pc = "ranges"
    /\ ridx <= Len(sections)
    /\ ranges' =
         [get |-> Append(ranges.get,
                         GetPageRange(sections[ridx], sections, ridx, total_pages)),
          calc |-> Append(ranges.calc,
                          CalculatePageRange(sections[ridx], sections, ridx, total_pages)),
          simple |-> Append(ranges.simple,
                            SimplePageRange(sections[ridx], sections, ridx, total_pages))]
    /\ ridx' = ridx + 1
    /\ UNCHANGED <<pc, hvars, fvars, sections, total_pages, xvars, svars, pathvars, wvars, dvars, ivars, cvars, jvars, qvars, nvars>>

NextRange == ResolvePageRange

SpecRange == InitRange /\ [][NextRange]_vars

\* a document longer than the look-ahead of _find_section_end: headings near
\* its start and near its end
InitLongRange ==
    /\ pc = "ranges"
    /\ HierarchyIdle
    /\ FilterIdle
    /\ ExtractIdle
    /\ SearchIdle
    /\ PathIdle
    /\ WriteIdle
    /\ DocIdle
    /\ IndexIdle
    /\ CacheIdle
    /\ InjectorIdle
    /\ QueryIdle
    /\ SingletonIdle
    /\ total_pages = LongPages
    /\ \E n \in 1..MaxLongSections :
          \E ls \in [1..n -> SectionLevels], ps \in [1..n -> LongStarts] :
              /\ InDocumentOrder(ps, n)
              /\ sections = [i \in 1..n |-> [level |-> ls[i], page |-> ps[i]]]
    /\ ridx = 1
    /\ ranges = EmptyRanges

SpecLongRange == InitLongRange /\ [][NextRange]_vars

-----------------------------------------------------------------------------
(* Content extraction: content_extractor.py ContentExtractor *)

\* a slot of the result array that holds no entry (Python None)
NoEntry == [none |-> TRUE]

\* constants.py CONTENT_LIMIT
ContentLimit == 50000

\* text[:limit]
Truncate(text, limit) == SubSeq(text, 1, Min(Len(text), limit))

\* f"[Section {section_id} - No extractable content]"
Placeholder(section_id) ==
    <<"[", "S", "e", "c", "t", "i", "o", "n", " ">> \o section_id
    \o <<" ", "-", " ", "N", "o", " ", "e", "x", "t", "r", "a", "c", "t", "a", "b",
         "l", "e", " ", "c", "o", "n", "t", "e", "n", "t", "]">>

\* the page texts that are not blank, stripped
RECURSIVE StrippedParts(_)
StrippedParts(page_texts) ==
    IF page_texts = <<>> THEN <<>>
    ELSE IF Strip(Head(page_texts)) # <<>>
         THEN <<Strip(Head(page_texts))>> \o StrippedParts(Tail(page_texts))
         ELSE StrippedParts(Tail(page_texts))

\* ContentExtractor._extract_text_optimized over the texts of the range's
\* pages; TextProcessor.join_page_texts computes the same
ExtractTextOptimized(page_texts) == JoinLines(StrippedParts(page_texts))

\* TextProcessor.truncate_content: cut at the limit, then back to the last
\* space when that leaves something
RECURSIVE LastSpace(_)
LastSpace(s) ==
    IF s = <<>> THEN 0
    ELSE IF s[Len(s)] = " " THEN Len(s)
    ELSE LastSpace(SubSeq(s, 1, Len(s) - 1))

TruncateContent(content, limit) ==
    IF Len(content) <= limit THEN content
    ELSE LET truncated == SubSeq(content, 1, limit)
             k == LastSpace(truncated)
             result == SubSeq(truncated, 1, k - 1)
         IN  IF k > 0 /\ Strip(result) # <<>> THEN result ELSE truncated

\* utils/performance.py PerformanceOptimizer.efficient_word_count:
\* len(WORD_PATTERN.findall(text)), WORD_PATTERN being \b\w{2,}\b
EfficientWordCount(text) ==
    IF text = <<>> THEN 0
    ELSE Len(SelectSeq(WordRuns(text), LAMBDA w : Len(w) > 1))

\* models/content.py ContentEntry with __post_init__ (the class that
\* "from models import ContentEntry" yields)
ContentEntry(section_id, title, page_range, content) ==
    [section_id |-> section_id,
     title |-> title,
     page_range |-> page_range,
     content |-> content,
     has_content |-> IF content # <<>> THEN Strip(content) # <<>> ELSE FALSE,
     word_count |-> IF content # <<>> THEN EfficientWordCount(content) ELSE 0]

\* ContentExtractor._extract_section_content, when it does not raise
ExtractSectionContent(section, all_sections, index, pages, page_texts) ==
    LET text_content == ExtractTextOptimized(page_texts)
    IN  ContentEntry(section.section_id, section.title,
                     CalculatePageRange(section, all_sections, index, pages),
                     IF text_content # <<>>
                     THEN Truncate(text_content, ContentLimit)
                     ELSE Placeholder(section.section_id))

\* ContentExtractor._extract_section_safe: None when the extraction raises
ExtractSectionSafe(section, all_sections, index, pages, page_texts, failing) ==
    IF index \in failing THEN NoEntry
    ELSE ExtractSectionContent(section, all_sections, index, pages, page_texts)

\* components/extraction ContentExtractor._extract_single: None when the
\* extraction raises
ExtractSingle(entry, all_entries, index, page_count, page_texts, failing) ==
    IF index \in failing THEN NoEntry
    ELSE ContentEntry(entry.section_id, entry.title,
                      GetPageRange(entry, all_entries, index, page_count),
                      TruncateContent(ExtractTextOptimized(page_texts), ContentLimit))

\* the result array returned with its empty slots
DropNoneKeepsSlots(results) == results

\* [entry for entry in content_entries if entry is not None]
DropNone(results) == SelectSeq(results, LAMBDA r : r # NoEntry)

\* what get_text returns for the pages of a section: one empty page; a blank
\* page and an empty one; two pages with text
SectionTexts ==
    { << <<>> >>,
      << <<" ">>, <<>> >>,
      << <<"a", " ">>, <<"\n", "b">> >> }

\* retained TOC entries of a document
ExtractPool ==
    { TOCEntry(<<"1">>, <<"I", "n">>, 1, 1, None),
      TOCEntry(<<"1", ".", "1">>, <<"O", "v">>, 2, 2, <<"1">>),
      TOCEntry(<<"2">>, <<"R", "q">>, 4, 1, None) }

InitExtract ==
    /\ pc = "extract"
    /\ HierarchyIdle
    /\ FilterIdle
    /\ sections = <<>>
    /\ ridx = 1
    /\ ranges = EmptyRanges
    /\ total_pages = MaxPages
    /\ SearchIdle
    /\ PathIdle
    /\ WriteIdle
    /\ DocIdle
    /\ IndexIdle
    /\ CacheIdle
    /\ InjectorIdle
    /\ QueryIdle
    /\ SingletonIdle
    /\ toc_entries \in SeqsUpTo(ExtractPool, MaxExtract)
    /\ texts \in [1..Len(toc_entries) -> SectionTexts]
    /\ fails \in SUBSET (1..Len(toc_entries))
    /\ path \in {"sequential", "parallel", "component", "component_sequential", "simple"}
    /\ xi = 1
    /\ content_entries = <<>>
    /\ finished = <<>>
    /\ collected = 0
    /\ output = <<>>

\* one iteration of ContentExtractor._extract_sequential
ExtractSequentialStep ==
    /\ pc = "extract"
    /\ path = "sequential"
    /\ xi <= Len(toc_entries)
    /\ content_entries' =
         IF xi \in fails THEN content_entries
         ELSE Append(content_entries,
                     ExtractSectionContent(toc_entries[xi], toc_entries, xi, total_pages,
                                           texts[xi]))
    /\ xi' = xi + 1
    /\ UNCHANGED <<pc, hvars, fvars, rvars, toc_entries, texts, fails, path, finished,
                   collected, output, svars, pathvars, wvars, dvars, ivars, cvars, jvars, qvars, nvars>>

\* ContentExtractor._extract_sequential returns
ExtractSequentialReturn ==
    /\ pc = "extract"
    /\ path = "sequential"
    /\ xi > Len(toc_entries)
    /\ output' = content_entries
    /\ pc' = "extracted"
    /\ UNCHANGED <<hvars, fvars, rvars, toc_entries, texts, fails, path, xi, content_entries,
                   finished, collected, svars, pathvars, wvars, dvars, ivars, cvars, jvars, qvars, nvars>>

\* ContentExtractor._extract_parallel, ParallelExtractor.extract_parallel: the
\* result array is allocated and one task per entry is submitted to the pool
\* (components.py keeps the futures in a list and has no result array)
SubmitTasks ==
    /\ pc = "extract"
    /\ path \in {"parallel", "component", "simple"}
    /\ content_entries' = IF path = "simple" THEN <<>>
                          ELSE [i \in 1..Len(toc_entries) |-> NoEntry]
    /\ pc' = "pool"
    /\ UNCHANGED <<hvars, fvars, rvars, toc_entries, texts, fails, path, xi, finished,
                   collected, output, svars, pathvars, wvars, dvars, ivars, cvars, jvars, qvars, nvars>>

\* a pool worker runs the task of entry i to its end; tasks end in any order
WorkerRun(i) ==
    /\ pc = "pool"
    /\ ~InSeq(i, finished)
    /\ finished' = Append(finished, i)
    /\ UNCHANGED <<pc, hvars, fvars, rvars, toc_entries, texts, fails, path, xi,
                   content_entries, collected, output, svars, pathvars, wvars, dvars, ivars, cvars, jvars, qvars, nvars>>

\* the as_completed loop with the results stored in the order of completion
CollectResultInCompletionOrder ==
    /\ pc = "pool"
    /\ path = "parallel"
    /\ collected < Len(finished)
    /\ LET index == finished[collected + 1]
       IN  content_entries' =
             [content_entries EXCEPT
                 ![collected + 1] = ExtractSectionSafe(toc_entries[index], toc_entries,
                                                       index, total_pages, texts[index],
                                                       fails)]
    /\ collected' = collected + 1
    /\ UNCHANGED <<pc, hvars, fvars, rvars, toc_entries, texts, fails, path, xi, finished,
                   output, svars, pathvars, wvars, dvars, ivars, cvars, jvars, qvars, nvars>>

\* one iteration of the as_completed loop: the next finished future's result
\* goes to the slot of its index
CollectResult ==
    /\ pc = "pool"
    /\ path = "parallel"
    /\ collected < Len(finished)
    /\ LET index == finished[collected + 1]
       IN  content_entries' =
             [content_entries EXCEPT
                 ![index] = ExtractSectionSafe(toc_entries[index], toc_entries, index,
                                               total_pages, texts[index], fails)]
    /\ collected' = collected + 1
    /\ UNCHANGED <<pc, hvars, fvars, rvars, toc_entries, texts, fails, path, xi, finished,
                   output, svars, pathvars, wvars, dvars, ivars, cvars, jvars, qvars, nvars>>

\* ContentExtractor._extract_parallel returns the slots that hold an entry
ExtractParallelReturn ==
    /\ pc = "pool"
    /\ path = "parallel"
    /\ collected = Len(toc_entries)
    /\ output' = DropNone(content_entries)
    /\ pc' = "extracted"
    /\ UNCHANGED <<hvars, fvars, rvars, toc_entries, texts, fails, path, xi, content_entries,
                   finished, collected, svars, pathvars, wvars, dvars, ivars, cvars, jvars, qvars, nvars>>

\* one iteration of the as_completed loop of ParallelExtractor.extract_parallel:
\* a result that is an entry goes to the slot of its index
ParallelExtractorCollect ==
    /\ pc = "pool"
    /\ path = "component"
    /\ collected < Len(finished)
    /\ LET index == finished[collected + 1]
           result == ExtractSingle(toc_entries[index], toc_entries, index,
                                   total_pages, texts[index], fails)
       IN  content_entries' =
             IF result # NoEntry
             THEN [content_entries EXCEPT ![index] = result]
             ELSE content_entries
    /\ collected' = collected + 1
    /\ UNCHANGED <<pc, hvars, fvars, rvars, toc_entries, texts, fails, path, xi, finished,
                   output, svars, pathvars, wvars, dvars, ivars, cvars, jvars, qvars, nvars>>

\* ParallelExtractor.extract_parallel returns the slots that hold an entry
ParallelExtractorReturn ==
    /\ pc = "pool"
    /\ path = "component"
    /\ collected = Len(toc_entries)
    /\ output' = DropNone(content_entries)
    /\ pc' = "extracted"
    /\ UNCHANGED <<hvars, fvars, rvars, toc_entries, texts, fails, path, xi, content_entries,
                   finished, collected, svars, pathvars, wvars, dvars, ivars, cvars, jvars, qvars, nvars>>

\* one iteration of components/extraction ContentExtractor._extract_sequential:
\* entries without a section id are passed over, a result that is an entry is
\* appended
ComponentSequentialStep ==
    /\ pc = "extract"
    /\ path = "component_sequential"
    /\ xi <= Len(toc_entries)
    /\ LET result == ExtractSingle(toc_entries[xi], toc_entries, xi, total_pages,
                                   texts[xi], fails)
       IN  content_entries' =
             IF Strip(toc_entries[xi].section_id) # <<>> /\ result # NoEntry
             THEN Append(content_entries, result)
             ELSE content_entries
    /\ xi' = xi + 1
    /\ UNCHANGED <<pc, hvars, fvars, rvars, toc_entries, texts, fails, path, finished,
                   collected, output, svars, pathvars, wvars, dvars, ivars, cvars, jvars, qvars, nvars>>

\* components/extraction ContentExtractor._extract_sequential returns
ComponentSequentialReturn ==
    /\ pc = "extract"
    /\ path = "component_sequential"
    /\ xi > Len(toc_entries)
    /\ output' = content_entries
    /\ pc' = "extracted"
    /\ UNCHANGED <<hvars, fvars, rvars, toc_entries, texts, fails, path, xi, content_entries,
                   finished, collected, svars, pathvars, wvars, dvars, ivars, cvars, jvars, qvars, nvars>>

\* ContentExtractor._extract_sequential (content_extractor.py) as one function
\* of its input: the entries of the sections whose extraction does not raise
ExtractSequential(es, page_texts, failing, pages) ==
    LET kept == SelectSeq([i \in 1..Len(es) |-> i], LAMBDA i : i \notin failing)
    IN  [k \in 1..Len(kept) |->
            ExtractSectionContent(es[kept[k]], es, kept[k], pages, page_texts[kept[k]])]

\* components/extraction ContentExtractor._extract_sequential as one function
\* of its input
ComponentExtractSequential(es, page_texts, failing, pages) ==
    LET kept == SelectSeq([i \in 1..Len(es) |-> i],
                          LAMBDA i : /\ Strip(es[i].section_id) # <<>>
                                     /\ ExtractSingle(es[i], es, i, pages, page_texts[i],
                                                      failing) # NoEntry)
    IN  [k \in 1..Len(kept) |->
            ExtractSingle(es[kept[k]], es, kept[k], pages, page_texts[kept[k]], failing)]

\* components.py ContentExtractor._extract_single
SimpleExtractSingle(entry, all_entries, index, pages, page_texts) ==
    ContentEntry(entry.section_id, entry.title,
                 SimplePageRange(entry, all_entries, index, pages),
                 Truncate(ExtractTextOptimized(page_texts), ContentLimit))

\* components.py ContentExtractor._extract_parallel: the comprehension takes
\* the futures in submission order and waits for each; a task that raised
\* makes f.result() raise and the call fails
SimpleCollect ==
    /\ pc = "pool"
    /\ path = "simple"
    /\ collected < Len(toc_entries)
    /\ InSeq(collected + 1, finished)
    /\ IF collected + 1 \in fails
       THEN /\ pc' = "failed"
            /\ UNCHANGED content_entries
       ELSE /\ pc' = pc
            /\ content_entries' =
                 Append(content_entries,
                        SimpleExtractSingle(toc_entries[collected + 1], toc_entries,
                                            collected + 1, total_pages,
                                            texts[collected + 1]))
    /\ collected' = collected + 1
    /\ UNCHANGED <<hvars, fvars, rvars, toc_entries, texts, fails, path, xi, finished,
                   output, svars, pathvars, wvars, dvars, ivars, cvars, jvars, qvars, nvars>>

\* components.py ContentExtractor._extract_parallel returns
SimpleReturn ==
    /\ pc = "pool"
    /\ path = "simple"
    /\ collected = Len(toc_entries)
    /\ output' = content_entries
    /\ pc' = "extracted"
    /\ UNCHANGED <<hvars, fvars, rvars, toc_entries, texts, fails, path, xi, content_entries,
                   finished, collected, svars, pathvars, wvars, dvars, ivars, cvars, jvars, qvars, nvars>>

NextExtract ==
    \/ ExtractSequentialStep
    \/ ExtractSequentialReturn
    \/ SubmitTasks
    \/ \E i \in 1..Len(toc_entries) : WorkerRun(i)
    \/ CollectResult
    \/ ExtractParallelReturn
    \/ ParallelExtractorCollect
    \/ ParallelExtractorReturn
    \/ ComponentSequentialStep
    \/ ComponentSequentialReturn
    \/ SimpleCollect
    \/ SimpleReturn

SpecExtract == InitExtract /\ [][NextExtract]_vars

-----------------------------------------------------------------------------
(* Searching the TOC file: parser_service.py SearchService over search.py *)

\* rows of a TOC file
SearchPool ==
    { [section_id |-> <<"2">>, title |-> <<"R", "v", " ", "1", "0">>, page |-> 1],
      [section_id |-> <<"1", "0">>, title |-> <<"A", "b">>, page |-> 2],
      [section_id |-> <<"1", ".", "1">>, title |-> <<"a", "b", " ", "r", "v">>, page |-> 3] }

\* queries typed on the command line
Queries ==
    { <<>>, <<" ">>, <<"a">>, <<" ", "2", " ">>, <<"1", "0">>, <<"1", ".", "1">>,
      <<" ", "a", "b", " ">>, <<"r", "v", " ", "a", "b">>, <<"z", "z">> }

TocFiles == SeqsUpTo(SearchPool, MaxRows)

InitSearch ==
    /\ pc = "search"
    /\ HierarchyIdle
    /\ FilterIdle
    /\ RangeIdle
    /\ ExtractIdle
    /\ \/ toc_file = [exists |-> FALSE, mtime |-> 0, rows |-> <<>>]
       \/ \E rows \in TocFiles : toc_file = [exists |-> TRUE, mtime |-> 1, rows |-> rows]
    /\ searcher = NewSearcher
    /\ loader_cached = FALSE
    /\ cli_query = <<>>
    /\ response = NoResponse
    /\ PathIdle
    /\ WriteIdle
    /\ DocIdle
    /\ IndexIdle
    /\ CacheIdle
    /\ InjectorIdle
    /\ QueryIdle
    /\ SingletonIdle

\* a parse run (JSONLWriter) writes the TOC file anew
WriteTocFile ==
    /\ pc = "search"
    /\ toc_file.mtime < MaxMtime
    /\ \E rows \in TocFiles :
          toc_file' = [exists |-> TRUE, mtime |-> toc_file.mtime + 1, rows |-> rows]
    /\ UNCHANGED <<pc, hvars, fvars, rvars, xvars, searcher, loader_cached, cli_query,
                   response, pathvars, wvars, dvars, ivars, cvars, jvars, qvars, nvars>>

\* the TOC file is removed
RemoveTocFile ==
    /\ pc = "search"
    /\ toc_file.exists
    /\ toc_file' = [toc_file EXCEPT !.exists = FALSE, !.rows = <<>>]
    /\ UNCHANGED <<pc, hvars, fvars, rvars, xvars, searcher, loader_cached, cli_query,
                   response, pathvars, wvars, dvars, ivars, cvars, jvars, qvars, nvars>>

\* PerformanceCache.get after the entry's age passed the TTL: the cached
\* generator is evicted
CacheExpires ==
    /\ pc = "search"
    /\ loader_cached
    /\ loader_cached' = FALSE
    /\ UNCHANGED <<pc, hvars, fvars, rvars, xvars, toc_file, searcher, cli_query,
                   response, pathvars, wvars, dvars, ivars, cvars, jvars, qvars, nvars>>

\* python app.py search <q>
Search(q, io_error) ==
    /\ pc = "search"
    /\ LET r == SearchToc(searcher, toc_file, loader_cached, q, io_error)
       IN  /\ response' = r.response
           /\ searcher' = r.searcher
           /\ loader_cached' = r.cached
    /\ cli_query' = q
    /\ UNCHANGED <<pc, hvars, fvars, rvars, xvars, toc_file, pathvars, wvars, dvars, ivars, cvars, jvars, qvars, nvars>>

NextSearch ==
    \/ WriteTocFile
    \/ RemoveTocFile
    \/ CacheExpires
    \/ \E q \in Queries, io_error \in BOOLEAN : Search(q, io_error)

SpecSearch == InitSearch /\ [][NextSearch]_vars

-----------------------------------------------------------------------------
(* Output paths: src/utils.py SecurePathValidator, validators.py             *)
(* InputValidator.validate_output_path and the writers that call them        *)

\* the current working directory
Cwd == <<"/", "w">>

DotDot == <<".", ".">>

AssetsPrefix == <<"a", "s", "s", "e", "t", "s", "/">>

\* str.startswith
StartsWith(s, prefix) == Len(s) >= Len(prefix) /\ SubSeq(s, 1, Len(prefix)) = prefix

\* '..' in filename or '/' in filename or '\\' in filename
HasTraversal(name) ==
    \/ IsSubstring(DotDot, name)
    \/ IsSubstring(<<"/">>, name)
    \/ IsSubstring(<<"\\">>, name)

\* (base / name).resolve() for a name without separators and without '..'
ResolveIn(base, name) ==
    IF name = <<>> \/ name = <<".">> THEN base ELSE base \o <<"/">> \o name

\* SecurePathValidator._validate_base_path
ValidateBasePath(name) ==
    IF HasTraversal(name) THEN [ok |-> FALSE, path |-> <<>>]
    ELSE [ok |-> TRUE, path |-> ResolveIn(Cwd, name)]

\* SecurePathValidator._validate_assets_path
ValidateAssetsPath(name) ==
    IF HasTraversal(name) THEN [ok |-> FALSE, path |-> <<>>]
    ELSE [ok |-> TRUE, path |-> ResolveIn(Cwd \o <<"/", "a", "s", "s", "e", "t", "s">>, name)]

\* SecurePathValidator.validate_and_resolve: ok = FALSE when it raises
ValidateAndResolve(name) ==
    IF name = <<>> THEN [ok |-> FALSE, path |-> <<>>]
    ELSE LET clean_name == Strip(name)
         IN  IF StartsWith(clean_name, AssetsPrefix)
             THEN ValidateAssetsPath(SubSeq(clean_name, Len(AssetsPrefix) + 1,
                                            Len(clean_name)))
             ELSE ValidateBasePath(clean_name)

\* the position of the last '/' of p, 0 when there is none
RECURSIVE LastSlash(_)
LastSlash(p) ==
    IF p = <<>> THEN 0
    ELSE IF p[Len(p)] = "/" THEN Len(p)
    ELSE LastSlash(SubSeq(p, 1, Len(p) - 1))

\* p without its trailing slashes (a lone root stays)
RECURSIVE DropTrailingSlashes(_)
DropTrailingSlashes(p) ==
    IF Len(p) > 1 /\ p[Len(p)] = "/" THEN DropTrailingSlashes(SubSeq(p, 1, Len(p) - 1))
    ELSE p

\* Path(p).parent
PathParent(p) ==
    LET q == DropTrailingSlashes(p)
        k == LastSlash(q)
    IN  IF k = 0 THEN <<".">>
        ELSE IF DropTrailingSlashes(SubSeq(q, 1, k)) = <<"/">> THEN <<"/">>
        ELSE DropTrailingSlashes(SubSeq(q, 1, k))

\* the directories there are, as the process names them
ExistingDirs ==
    { <<".">>, DotDot, <<"/">>, Cwd, <<"/", "e", "t", "c">>,
      <<"a", "s", "s", "e", "t", "s">>, <<".", ".", "/", ".", ".">> }

\* validators.py InputValidator.validate_output_path: ok = FALSE when it
\* raises; the path is returned as given
ValidateOutputPath(output_path) ==
    IF output_path = <<>> THEN [ok |-> FALSE, path |-> <<>>]
    ELSE IF PathParent(output_path) \notin ExistingDirs THEN [ok |-> FALSE, path |-> <<>>]
    ELSE [ok |-> TRUE, path |-> output_path]

\* the pieces file names are put together from
NameAtoms ==
    { DotDot, <<"/">>, <<"\\">>, <<"a">>, <<"e", "t", "c">>, AssetsPrefix,
      <<"%", "2", "e", "%", "2", "e", "%", "2", "f">> }

RECURSIVE Concat(_)
Concat(parts) == IF parts = <<>> THEN <<>> ELSE Head(parts) \o Concat(Tail(parts))

FileNames == {Concat(parts) : parts \in SeqsUpTo(NameAtoms, MaxAtoms)}

InitPath ==
    /\ pc = "write"
    /\ HierarchyIdle
    /\ FilterIdle
    /\ RangeIdle
    /\ ExtractIdle
    /\ SearchIdle
    /\ filename \in FileNames
    /\ opened = {}
    /\ rejected = {}
    /\ WriteIdle
    /\ DocIdle
    /\ IndexIdle
    /\ CacheIdle
    /\ InjectorIdle
    /\ QueryIdle
    /\ SingletonIdle

\* src/core.py ParserService._write_jsonl_file: validate_and_resolve, then
\* open(safe_path, 'w')
WriteJsonlFile ==
    /\ pc = "write"
    /\ "core" \notin rejected
    /\ \A o \in opened : o.by # "core"
    /\ LET v == ValidateAndResolve(filename)
       IN  IF v.ok
           THEN /\ opened' = opened \cup {[by |-> "core", path |-> v.path]}
                /\ UNCHANGED rejected
           ELSE /\ rejected' = rejected \cup {"core"}
                /\ UNCHANGED opened
    /\ UNCHANGED <<pc, hvars, fvars, rvars, xvars, svars, filename, wvars, dvars, ivars, cvars, jvars, qvars, nvars>>

\* pdf_parser.py JSONLWriter.save: validate_output_path, then
\* open(output_path, 'w')
JSONLWriterSave ==
    /\ pc = "write"
    /\ "jsonl" \notin rejected
    /\ \A o \in opened : o.by # "jsonl"
    /\ LET v == ValidateOutputPath(filename)
       IN  IF v.ok
           THEN /\ opened' = opened \cup {[by |-> "jsonl", path |-> v.path]}
                /\ UNCHANGED rejected
           ELSE /\ rejected' = rejected \cup {"jsonl"}
                /\ UNCHANGED opened
    /\ UNCHANGED <<pc, hvars, fvars, rvars, xvars, svars, filename, wvars, dvars, ivars, cvars, jvars, qvars, nvars>>

NextPath ==
    \/ WriteJsonlFile
    \/ JSONLWriterSave

SpecPath == InitPath /\ [][NextPath]_vars

-----------------------------------------------------------------------------
(* A whole parse run: parser_service.py ParserService.parse_pdf *)

\* PDFParser._create_toc_entry with its metadata (models.py TOCEntry)
PdfCreateTocEntryAt(b, now) ==
    LET e == PdfCreateTocEntry(b)
    IN  [section_id |-> e.section_id, title |-> e.title, page |-> e.page,
         level |-> e.level, parent_id |-> e.parent_id,
         metadata |-> [raw_title |-> Strip(b.title), extracted_at |-> now]]

\* PDFParser._build_hierarchy: the loop over all entries
RECURSIVE PdfBuildFrom(_, _)
PdfBuildFrom(st, raw) ==
    IF raw = <<>> THEN st ELSE PdfBuildFrom(PdfBuildStep(st, Head(raw)), Tail(raw))

\* PDFParser._extract_toc_entries at time now
PdfExtractTocEntries(bookmarks, now) ==
    PdfBuildFrom(EmptyBuild,
                 [i \in 1..Len(bookmarks) |-> PdfCreateTocEntryAt(bookmarks[i], now)]).result

\* ContentExtractor._extract_section_content with its metadata
ExtractSectionContentAt(section, all_sections, index, pages, page_texts, now) ==
    LET e == ExtractSectionContent(section, all_sections, index, pages, page_texts)
    IN  [section_id |-> e.section_id, title |-> e.title, page_range |-> e.page_range,
         content |-> e.content, has_content |-> e.has_content,
         word_count |-> e.word_count,
         metadata |-> [extraction_time |-> now,
                       page_count |-> e.page_range[2] - e.page_range[1] + 1]]

\* the text of every section of the document
DocumentText == << <<"a">> >>

\* ParserService.parse_pdf at time now: the rows JSONLWriter writes to the
\* TOC file and to the content file (entry.to_dict() per row)
ParsePdf(bookmarks, pages, now) ==
    LET toc_list == PdfExtractTocEntries(bookmarks, now)
        filtered_toc == FilterNumberedSections(toc_list, TRUE).out
    IN  [toc |-> filtered_toc,
         content |-> [i \in 1..Len(filtered_toc) |->
                         ExtractSectionContentAt(filtered_toc[i], filtered_toc, i, pages,
                                                 DocumentText, now)]]

InitWrite ==
    /\ pc = "parse"
    /\ outline \in Outlines
    /\ idx = 0
    /\ pdf = EmptyBuild
    /\ toc = EmptyBuild
    /\ usb = EmptyBuild
    /\ FilterIdle
    /\ sections = <<>>
    /\ ridx = 1
    /\ ranges = EmptyRanges
    /\ total_pages = MaxPages
    /\ ExtractIdle
    /\ SearchIdle
    /\ PathIdle
    /\ clock = 1
    /\ written = <<>>
    /\ DocIdle
    /\ IndexIdle
    /\ CacheIdle
    /\ InjectorIdle
    /\ QueryIdle
    /\ SingletonIdle

\* the wall clock advances
Tick ==
    /\ pc = "parse"
    /\ clock < MaxClock
    /\ clock' = clock + 1
    /\ UNCHANGED <<pc, hvars, fvars, rvars, xvars, svars, pathvars, written, dvars, ivars, cvars, jvars, qvars, nvars>>

\* python app.py parse: one run over the same PDF
ParseRun ==
    /\ pc = "parse"
    /\ Len(written) < MaxRuns
    /\ written' = Append(written, ParsePdf(outline, total_pages, clock))
    /\ UNCHANGED <<pc, hvars, fvars, rvars, xvars, svars, pathvars, clock, dvars, ivars, cvars, jvars, qvars, nvars>>

NextWrite ==
    \/ Tick
    \/ ParseRun

SpecWrite == InitWrite /\ [][NextWrite]_vars

-----------------------------------------------------------------------------
(* The PDF document handle: usb_pd_parser.py, pdf_parser.py, src/core.py *)

InitDoc ==
    /\ pc = "doc"
    /\ HierarchyIdle
    /\ FilterIdle
    /\ RangeIdle
    /\ ExtractIdle
    /\ SearchIdle
    /\ PathIdle
    /\ WriteIdle
    /\ DocIdle
    /\ IndexIdle
    /\ CacheIdle
    /\ InjectorIdle
    /\ QueryIdle
    /\ SingletonIdle

\* an operation is called
Call(o) ==
    /\ pc = "doc"
    /\ at[o] = "idle"
    /\ calls[o] < MaxCalls
    /\ calls' = [calls EXCEPT ![o] = @ + 1]
    /\ at' = [at EXCEPT ![o] = "open"]
    /\ UNCHANGED <<pc, hvars, fvars, rvars, xvars, svars, pathvars, wvars, handles, ivars, cvars, jvars, qvars, nvars>>

\* the caller takes the result or the exception
Return(o) ==
    /\ pc = "doc"
    /\ at[o] \in {"returned", "raised"}
    /\ at' = [at EXCEPT ![o] = "idle"]
    /\ UNCHANGED <<pc, hvars, fvars, rvars, xvars, svars, pathvars, wvars, handles, calls, ivars, cvars, jvars, qvars, nvars>>

\* USBPDParser.extract_outline_bookmarks: doc = fitz.open(self.pdf_path);
\* a failed open is caught by the except clause, which returns []
UsbOpen(ok) ==
    /\ pc = "doc"
    /\ at["usb"] = "open"
    /\ at' = [at EXCEPT !["usb"] = IF ok THEN "get_toc" ELSE "returned"]
    /\ handles' = [handles EXCEPT !["usb"] = IF ok THEN @ + 1 ELSE @]
    /\ UNCHANGED <<pc, hvars, fvars, rvars, xvars, svars, pathvars, wvars, calls, ivars, cvars, jvars, qvars, nvars>>

\* USBPDParser.extract_outline_bookmarks: outline = doc.get_toc(); doc.close();
\* when get_toc raises, control goes to the except clause, which returns []
UsbGetToc(ok) ==
    /\ pc = "doc"
    /\ at["usb"] = "get_toc"
    /\ at' = [at EXCEPT !["usb"] = IF ok THEN "entries" ELSE "returned"]
    /\ handles' = [handles EXCEPT !["usb"] = IF ok THEN @ - 1 ELSE @]
    /\ UNCHANGED <<pc, hvars, fvars, rvars, xvars, svars, pathvars, wvars, calls, ivars, cvars, jvars, qvars, nvars>>

\* USBPDParser.extract_outline_bookmarks: the loop over the outline
UsbEntries ==
    /\ pc = "doc"
    /\ at["usb"] = "entries"
    /\ at' = [at EXCEPT !["usb"] = "returned"]
    /\ UNCHANGED <<pc, hvars, fvars, rvars, xvars, svars, pathvars, wvars, handles, calls, ivars, cvars, jvars, qvars, nvars>>

\* PDFParser.__enter__: self._doc = fitz.open(self.pdf_path); a failed open
\* is raised again
PdfEnter(ok) ==
    /\ pc = "doc"
    /\ at["pdf"] = "open"
    /\ at' = [at EXCEPT !["pdf"] = IF ok THEN "body" ELSE "raised"]
    /\ handles' = [handles EXCEPT !["pdf"] = IF ok THEN @ + 1 ELSE @]
    /\ UNCHANGED <<pc, hvars, fvars, rvars, xvars, svars, pathvars, wvars, calls, ivars, cvars, jvars, qvars, nvars>>

\* the body of the with-block ends or raises
PdfBody(ok) ==
    /\ pc = "doc"
    /\ at["pdf"] = "body"
    /\ at' = [at EXCEPT !["pdf"] = IF ok THEN "exit" ELSE "exit_raising"]
    /\ UNCHANGED <<pc, hvars, fvars, rvars, xvars, svars, pathvars, wvars, handles, calls, ivars, cvars, jvars, qvars, nvars>>

\* PDFParser.__exit__: if self._doc: self._doc.close(); returns None, so an
\* exception of the body goes on to the caller
PdfExit ==
    /\ pc = "doc"
    /\ at["pdf"] \in {"exit", "exit_raising"}
    /\ handles' = [handles EXCEPT !["pdf"] = IF @ > 0 THEN @ - 1 ELSE @]
    /\ at' = [at EXCEPT !["pdf"] = IF at["pdf"] = "exit" THEN "returned" ELSE "raised"]
    /\ UNCHANGED <<pc, hvars, fvars, rvars, xvars, svars, pathvars, wvars, calls, ivars, cvars, jvars, qvars, nvars>>

\* src/core.py ParserService.parse_pdf: validate_and_resolve and fitz.open;
\* a failure of either is caught by the outer except, which returns the
\* failure result
CoreOpen(ok) ==
    /\ pc = "doc"
    /\ at["core"] = "open"
    /\ at' = [at EXCEPT !["core"] = IF ok THEN "extract" ELSE "returned"]
    /\ handles' = [handles EXCEPT !["core"] = IF ok THEN @ + 1 ELSE @]
    /\ UNCHANGED <<pc, hvars, fvars, rvars, xvars, svars, pathvars, wvars, calls, ivars, cvars, jvars, qvars, nvars>>

\* src/core.py ParserService.parse_pdf: the inner try block ends or raises
CoreExtract(ok) ==
    /\ pc = "doc"
    /\ at["core"] = "extract"
    /\ at' = [at EXCEPT !["core"] = IF ok THEN "finally" ELSE "finally_raising"]
    /\ UNCHANGED <<pc, hvars, fvars, rvars, xvars, svars, pathvars, wvars, handles, calls, ivars, cvars, jvars, qvars, nvars>>

\* src/core.py ParserService.parse_pdf: finally: doc.close(); the outer
\* except turns an exception of the inner block into the failure result
CoreFinally ==
    /\ pc = "doc"
    /\ at["core"] \in {"finally", "finally_raising"}
    /\ handles' = [handles EXCEPT !["core"] = @ - 1]
    /\ at' = [at EXCEPT !["core"] = "returned"]
    /\ UNCHANGED <<pc, hvars, fvars, rvars, xvars, svars, pathvars, wvars, calls, ivars, cvars, jvars, qvars, nvars>>

NextDoc ==
    \/ \E o \in Openers : Call(o)
    \/ \E o \in Openers : Return(o)
    \/ \E ok \in BOOLEAN : UsbOpen(ok)
    \/ \E ok \in BOOLEAN : UsbGetToc(ok)
    \/ UsbEntries
    \/ \E ok \in BOOLEAN : PdfEnter(ok)
    \/ \E ok \in BOOLEAN : PdfBody(ok)
    \/ PdfExit
    \/ \E ok \in BOOLEAN : CoreOpen(ok)
    \/ \E ok \in BOOLEAN : CoreExtract(ok)
    \/ CoreFinally

SpecDoc == InitDoc /\ [][NextDoc]_vars

-----------------------------------------------------------------------------
(* The search package: search/indexer.py, search/query_processor.py *)

\* len(self.entries) > 10000 in _process_line
BatchThreshold == 10000

\* len(self.entries) > 5000 and self.entries[-5000:] in _process_batch
BatchKeep == 5000

\* d[k] = v on a dict held as a set of (key, value) pairs
DictSet(d, k, v) == {p \in d : p[1] # k} \cup {<<k, v>>}

\* SearchIndexer._index_entry: entry_index is the 0-based index it is given
IndexEntry(ix, entry, entry_index) ==
    LET words == Tokenize(entry.title)
        with_words == [ix EXCEPT !.word_index =
                          @ \cup {<<words[i], entry_index>> : i \in 1..Len(words)}]
    IN  IF entry.section_id # <<>>
        THEN [with_words EXCEPT
                 !.section_index = DictSet(@, entry.section_id, entry_index),
                 !.section_index_lower = DictSet(@, Lower(entry.section_id), entry_index)]
        ELSE with_words

\* the loop of _process_batch: _index_entry(entry, i) for i, entry in
\* enumerate(self.entries), from position i + 1 on
RECURSIVE ReindexFrom(_, _)
ReindexFrom(ix, i) ==
    IF i >= Len(ix.entries) THEN ix
    ELSE ReindexFrom(IndexEntry(ix, ix.entries[i + 1], i), i + 1)

\* SearchIndexer._process_batch
ProcessBatch(ix) ==
    IF Len(ix.entries) > BatchKeep
    THEN ReindexFrom([entries |-> SubSeq(ix.entries, Len(ix.entries) - BatchKeep + 1,
                                         Len(ix.entries)),
                      word_index |-> {}, section_index |-> {},
                      section_index_lower |-> {}], 0)
    ELSE ix

\* a line json.loads rejects
Malformed == [malformed |-> TRUE]

\* SearchIndexer._process_line: the indexer and the counter it returns
ProcessLine(ix, line, entry_counter) ==
    IF line = Malformed THEN [ix |-> ix, entry_counter |-> entry_counter]
    ELSE LET batched == IF Len(ix.entries) > BatchThreshold THEN ProcessBatch(ix) ELSE ix
             appended == [batched EXCEPT !.entries = Append(@, line)]
         IN  [ix |-> IndexEntry(appended, line, entry_counter),
              entry_counter |-> entry_counter + 1]

\* the for-loop of build_index over the lines of the file
RECURSIVE ProcessLines(_, _, _)
ProcessLines(ix, lines, entry_counter) ==
    IF lines = <<>> THEN ix
    ELSE LET r == ProcessLine(ix, Head(lines), entry_counter)
         IN  ProcessLines(r.ix, Tail(lines), r.entry_counter)

\* SearchIndexer.build_index: a path the checks refuse returns False before
\* anything is touched; otherwise self.entries = [] and every line is processed
BuildIndex(ix, path_ok, lines) ==
    IF ~path_ok THEN ix
    ELSE ProcessLines([ix EXCEPT !.entries = <<>>], lines, 0)

\* QueryProcessor.search_by_text: the indices of the entries returned as
\* text matches; self.indexer.entries[index] raises IndexError past the end
SearchByText(ix, query) ==
    LET query_words == Tokenize(query)
        candidate_indices == UNION {Postings(ix.word_index, w) : w \in Range(query_words)}
    IN  IF query_words = <<>>
        THEN [query |-> query, raised |-> FALSE, matches |-> {}]
        ELSE IF \E index \in candidate_indices : index >= Len(ix.entries)
        THEN [query |-> query, raised |-> TRUE, matches |-> {}]
        ELSE [query |-> query, raised |-> FALSE, matches |-> candidate_indices]

\* the lines of a TOC file: rows and lines that are not JSON
IndexFiles == SeqsUpTo(SearchPool \cup {Malformed}, MaxLines)

\* text queries
TextQueries ==
    { <<>>, <<"a">>, <<"a", "b">>, <<"r", "v", " ", "a", "b">>,
      <<"A", "b", " ", "1", "0">>, <<"z", "z">> }

InitIndex ==
    /\ pc = "index"
    /\ HierarchyIdle
    /\ FilterIdle
    /\ RangeIdle
    /\ ExtractIdle
    /\ SearchIdle
    /\ PathIdle
    /\ WriteIdle
    /\ DocIdle
    /\ IndexIdle
    /\ CacheIdle
    /\ InjectorIdle
    /\ QueryIdle
    /\ SingletonIdle

\* indexer.build_index(toc_file)
BuildIndexCall(path_ok, lines) ==
    /\ pc = "index"
    /\ indexer' = BuildIndex(indexer, path_ok, lines)
    /\ UNCHANGED <<pc, hvars, fvars, rvars, xvars, svars, pathvars, wvars, dvars, text_hits, cvars, jvars, qvars, nvars>>

\* query_processor.search_by_text(query)
SearchByTextCall(query) ==
    /\ pc = "index"
    /\ text_hits' = SearchByText(indexer, query)
    /\ UNCHANGED <<pc, hvars, fvars, rvars, xvars, svars, pathvars, wvars, dvars, indexer, cvars, jvars, qvars, nvars>>

NextIndex ==
    \/ \E path_ok \in BOOLEAN, lines \in IndexFiles : BuildIndexCall(path_ok, lines)
    \/ \E query \in TextQueries : SearchByTextCall(query)

SpecIndex == InitIndex /\ [][NextIndex]_vars

-----------------------------------------------------------------------------
(* The in-memory cache: performance_cache.py PerformanceCache.              *)
(* A thread may be pre-empted between any two statements: the class takes   *)
(* no lock.                                                                 *)

CacheKeys == {"k1", "k2", "k3"}

\* d[k] = v
DictPut(d, k, v) == [x \in (DOMAIN d) \cup {k} |-> IF x = k THEN v ELSE d[x]]

\* d.pop(k, None)
DictPop(d, k) == [x \in (DOMAIN d) \ {k} |-> d[x]]

\* min(self._access_times.keys(), key=lambda k: self._access_times[k]): the
\* keys of least access time (min returns the first of them in dict order)
LruKeys(times) == {k \in DOMAIN times : \A x \in DOMAIN times : times[k] <= times[x]}

InitCache ==
    /\ pc = "cache"
    /\ HierarchyIdle
    /\ FilterIdle
    /\ RangeIdle
    /\ ExtractIdle
    /\ SearchIdle
    /\ PathIdle
    /\ WriteIdle
    /\ DocIdle
    /\ IndexIdle
    /\ CacheIdle
    /\ InjectorIdle
    /\ QueryIdle
    /\ SingletonIdle

\* the other variables of a cache step
CacheFrame == UNCHANGED <<pc, hvars, fvars, rvars, xvars, svars, pathvars, wvars, dvars, ivars, jvars, qvars, nvars>>

\* time passes
CacheTick ==
    /\ pc = "cache"
    /\ ctime < MaxCacheClock
    /\ ctime' = ctime + 1
    /\ UNCHANGED <<cache, access_times, th, jvars, qvars, nvars>>
    /\ CacheFrame

\* thread t calls cache.get(key)
CallGet(t, key) ==
    /\ pc = "cache"
    /\ th[t].at = "idle"
    /\ th' = [th EXCEPT ![t] = [IdleThread EXCEPT !.at = "get_check", !.key = key]]
    /\ UNCHANGED <<cache, access_times, ctime, jvars, qvars, nvars>>
    /\ CacheFrame

\* get: if key not in self._cache: return None
GetCheck(t) ==
    /\ pc = "cache"
    /\ th[t].at = "get_check"
    /\ th' = IF th[t].key \in DOMAIN cache
             THEN [th EXCEPT ![t].at = "get_read"]
             ELSE [th EXCEPT ![t] = IdleThread]
    /\ UNCHANGED <<cache, access_times, ctime, jvars, qvars, nvars>>
    /\ CacheFrame

\* get: value, timestamp = self._cache[key]  (KeyError when the key went
\* away since the check)
GetRead(t) ==
    /\ pc = "cache"
    /\ th[t].at = "get_read"
    /\ th' = IF th[t].key \in DOMAIN cache
             THEN [th EXCEPT ![t].at = "get_ttl", ![t].timestamp = cache[th[t].key]]
             ELSE [th EXCEPT ![t] = IdleThread]
    /\ UNCHANGED <<cache, access_times, ctime, jvars, qvars, nvars>>
    /\ CacheFrame

\* get: if time.time() - timestamp > self.ttl: self._evict(key); return None
GetTtl(t) ==
    /\ pc = "cache"
    /\ th[t].at = "get_ttl"
    /\ th' = IF ctime - th[t].timestamp > CacheTtl
             THEN [th EXCEPT ![t].at = "evict_cache", ![t].victim = th[t].key,
                             ![t].after = "idle"]
             ELSE [th EXCEPT ![t].at = "get_touch"]
    /\ UNCHANGED <<cache, access_times, ctime, jvars, qvars, nvars>>
    /\ CacheFrame

\* get: self._access_times[key] = time.time(); return value
GetTouch(t) ==
    /\ pc = "cache"
    /\ th[t].at = "get_touch"
    /\ access_times' = DictPut(access_times, th[t].key, ctime)
    /\ th' = [th EXCEPT ![t] = IdleThread]
    /\ UNCHANGED <<cache, ctime, jvars, qvars, nvars>>
    /\ CacheFrame

\* _evict: self._cache.pop(key, None)
EvictCache(t) ==
    /\ pc = "cache"
    /\ th[t].at = "evict_cache"
    /\ cache' = DictPop(cache, th[t].victim)
    /\ th' = [th EXCEPT ![t].at = "evict_access"]
    /\ UNCHANGED <<access_times, ctime, jvars, qvars, nvars>>
    /\ CacheFrame

\* _evict: self._access_times.pop(key, None), then back in the caller
EvictAccess(t) ==
    /\ pc = "cache"
    /\ th[t].at = "evict_access"
    /\ access_times' = DictPop(access_times, th[t].victim)
    /\ th' = IF th[t].after = "idle"
             THEN [th EXCEPT ![t] = IdleThread]
             ELSE [th EXCEPT ![t].at = th[t].after, ![t].victim = ""]
    /\ UNCHANGED <<cache, ctime, jvars, qvars, nvars>>
    /\ CacheFrame

\* thread t calls cache.set(key, value)
CallSet(t, key) ==
    /\ pc = "cache"
    /\ th[t].at = "idle"
    /\ th' = [th EXCEPT ![t] = [IdleThread EXCEPT !.at = "set_check", !.key = key]]
    /\ UNCHANGED <<cache, access_times, ctime, jvars, qvars, nvars>>
    /\ CacheFrame

\* set: if len(self._cache) >= self.max_size: self._evict_lru()
SetCheck(t) ==
    /\ pc = "cache"
    /\ th[t].at = "set_check"
    /\ th' = [th EXCEPT ![t].at = IF Cardinality(DOMAIN cache) >= CacheMaxSize
                                  THEN "evict_lru" ELSE "set_cache"]
    /\ UNCHANGED <<cache, access_times, ctime, jvars, qvars, nvars>>
    /\ CacheFrame

\* _evict_lru: nothing to do without access times, else pick lru_key
EvictLru(t) ==
    /\ pc = "cache"
    /\ th[t].at = "evict_lru"
    /\ IF DOMAIN access_times = {}
       THEN th' = [th EXCEPT ![t].at = "set_cache"]
       ELSE \E lru_key \in LruKeys(access_times) :
               th' = [th EXCEPT ![t].at = "evict_cache", ![t].victim = lru_key,
                                ![t].after = "set_cache"]
    /\ UNCHANGED <<cache, access_times, ctime, jvars, qvars, nvars>>
    /\ CacheFrame

\* set: current_time = time.time(); self._cache[key] = (value, current_time)
SetCache(t) ==
    /\ pc = "cache"
    /\ th[t].at = "set_cache"
    /\ cache' = DictPut(cache, th[t].key, ctime)
    /\ th' = [th EXCEPT ![t].at = "set_access", ![t].timestamp = ctime]
    /\ UNCHANGED <<access_times, ctime, jvars, qvars, nvars>>
    /\ CacheFrame

\* set: self._access_times[key] = current_time
SetAccess(t) ==
    /\ pc = "cache"
    /\ th[t].at = "set_access"
    /\ access_times' = DictPut(access_times, th[t].key, th[t].timestamp)
    /\ th' = [th EXCEPT ![t] = IdleThread]
    /\ UNCHANGED <<cache, ctime, jvars, qvars, nvars>>
    /\ CacheFrame

\* thread t calls cache.clear(): self._cache.clear()
ClearCache(t) ==
    /\ pc = "cache"
    /\ th[t].at = "idle"
    /\ cache' = << >>
    /\ th' = [th EXCEPT ![t] = [IdleThread EXCEPT !.at = "clear_access"]]
    /\ UNCHANGED <<access_times, ctime, jvars, qvars, nvars>>
    /\ CacheFrame

\* clear: self._access_times.clear()
ClearAccess(t) ==
    /\ pc = "cache"
    /\ th[t].at = "clear_access"
    /\ access_times' = << >>
    /\ th' = [th EXCEPT ![t] = IdleThread]
    /\ UNCHANGED <<cache, ctime, jvars, qvars, nvars>>
    /\ CacheFrame

NextCache ==
    \/ CacheTick
    \/ \E t \in Threads, key \in CacheKeys : CallGet(t, key)
    \/ \E t \in Threads : GetCheck(t)
    \/ \E t \in Threads : GetRead(t)
    \/ \E t \in Threads : GetTtl(t)
    \/ \E t \in Threads : GetTouch(t)
    \/ \E t \in Threads : EvictCache(t)
    \/ \E t \in Threads : EvictAccess(t)
    \/ \E t \in Threads, key \in CacheKeys : CallSet(t, key)
    \/ \E t \in Threads : SetCheck(t)
    \/ \E t \in Threads : EvictLru(t)
    \/ \E t \in Threads : SetCache(t)
    \/ \E t \in Threads : SetAccess(t)
    \/ \E t \in Threads : ClearCache(t)
    \/ \E t \in Threads : ClearAccess(t)

SpecCache == InitCache /\ [][NextCache]_vars

-----------------------------------------------------------------------------
(* Dependency injection: factories/registry.py DependencyInjector.          *)
(* self._lock is a threading.Lock: it is not re-entrant.                    *)

Interfaces == {"ProcessorFactory", "ServiceFactory", "InputValidator", "Exporter"}

\* the places where a thread stands at a "with self._lock:" line, and where
\* it goes once it has the lock
AfterAcquire ==
    [bind_acquire |-> "bind_body", get_acquire |-> "get_singleton",
     singleton_acquire |-> "singleton_body", create_acquire |-> "create_body"]

InitInjector ==
    /\ pc = "inject"
    /\ HierarchyIdle
    /\ FilterIdle
    /\ RangeIdle
    /\ ExtractIdle
    /\ SearchIdle
    /\ PathIdle
    /\ WriteIdle
    /\ DocIdle
    /\ IndexIdle
    /\ CacheIdle
    /\ InjectorIdle
    /\ QueryIdle
    /\ SingletonIdle

\* the other variables of an injector step
InjectorFrame ==
    UNCHANGED <<pc, hvars, fvars, rvars, xvars, svars, pathvars, wvars, dvars, ivars, cvars, qvars, nvars>>

\* thread t calls bind(interface, implementation) or bind_singleton(...)
CallBind(t, interface, singleton) ==
    /\ pc = "inject"
    /\ inj[t].at = "idle"
    /\ inj' = [inj EXCEPT ![t] = [IdleCaller EXCEPT !.at = "bind_acquire",
                                                    !.interface = interface,
                                                    !.singleton = singleton]]
    /\ UNCHANGED <<lock, bindings, singletons, qvars, nvars>>
    /\ InjectorFrame

\* thread t calls get(interface)
CallInjectorGet(t, interface) ==
    /\ pc = "inject"
    /\ inj[t].at = "idle"
    /\ inj' = [inj EXCEPT ![t] = [IdleCaller EXCEPT !.at = "get_acquire",
                                                    !.interface = interface]]
    /\ UNCHANGED <<lock, bindings, singletons, qvars, nvars>>
    /\ InjectorFrame

\* with self._lock: the thread goes on only when the lock is free, whoever
\* holds it
AcquireLock(t) ==
    /\ pc = "inject"
    /\ inj[t].at \in DOMAIN AfterAcquire
    /\ lock = "free"
    /\ lock' = t
    /\ inj' = [inj EXCEPT ![t].at = AfterAcquire[inj[t].at]]
    /\ UNCHANGED <<bindings, singletons, qvars, nvars>>
    /\ InjectorFrame

\* get, holding the lock: _get_singleton returns None for an interface that is
\* no singleton, and get goes on to _create_instance; for a singleton
\* _get_singleton goes on to its own with self._lock
GetSingleton(t) ==
    /\ pc = "inject"
    /\ inj[t].at = "get_singleton"
    /\ inj' = [inj EXCEPT ![t].at = IF inj[t].interface \in DOMAIN singletons
                                    THEN "singleton_acquire" ELSE "create_acquire"]
    /\ UNCHANGED <<lock, bindings, singletons, qvars, nvars>>
    /\ InjectorFrame

\* the body of a with self._lock block and the release at its end: bind and
\* bind_singleton store the binding; _get_singleton makes the instance if there
\* is none; _create_instance instantiates the binding or raises ValueError;
\* the with-block of get itself ends after them
WithBody(t) ==
    /\ pc = "inject"
    /\ inj[t].at \in {"bind_body", "singleton_body", "create_body", "get_exit"}
    /\ bindings' = IF inj[t].at = "bind_body" THEN bindings \cup {inj[t].interface}
                   ELSE bindings
    /\ singletons' =
         IF inj[t].at = "bind_body" /\ inj[t].singleton
         THEN [i \in (DOMAIN singletons) \cup {inj[t].interface} |->
                  IF i = inj[t].interface THEN "None" ELSE singletons[i]]
         ELSE IF inj[t].at = "singleton_body"
         THEN [singletons EXCEPT ![inj[t].interface] = "instance"]
         ELSE singletons
    /\ inj' = IF inj[t].at \in {"bind_body", "get_exit"}
              THEN [inj EXCEPT ![t] = IdleCaller]
              ELSE [inj EXCEPT ![t].at = "get_exit",
                               ![t].result = IF inj[t].interface \in bindings
                                             THEN "instance" ELSE "ValueError"]
    /\ lock' = "free"
    /\ InjectorFrame

NextInjector ==
    \/ \E t \in Threads, interface \in Interfaces, singleton \in BOOLEAN :
          CallBind(t, interface, singleton)
    \/ \E t \in Threads, interface \in Interfaces : CallInjectorGet(t, interface)
    \/ \E t \in Threads : AcquireLock(t)
    \/ \E t \in Threads : GetSingleton(t)
    \/ \E t \in Threads : WithBody(t)

SpecInjector == InitInjector /\ [][NextInjector]_vars

-----------------------------------------------------------------------------
(* Query validation: validators/query_validator.py QueryValidator *)

\* QueryValidator.DANGEROUS_CHARS ("NUL" stands for the character \x00)
DangerousChars == {"<", ">", "\"", "'", "&", "NUL", "\r", "\n"}

\* str.translate(TRANSLATION_TABLE): the dangerous characters are deleted
Translate(s) == SelectSeq(s, LAMBDA c : c \notin DangerousChars)

\* QueryValidator.validate_search_query
QueryValidatorValidate(query) ==
    IF query = <<>> THEN [done |-> TRUE, raised |-> TRUE, value |-> <<>>]
    ELSE IF Len(Strip(query)) < MinQueryLength
    THEN [done |-> TRUE, raised |-> TRUE, value |-> <<>>]
    ELSE IF Translate(Strip(query)) = <<>>
    THEN [done |-> TRUE, raised |-> TRUE, value |-> <<>>]
    ELSE [done |-> TRUE, raised |-> FALSE, value |-> Translate(Strip(query))]

\* the characters of a query
QueryChars == {"a", "b", " ", "<", "\n"}

InitQuery ==
    /\ pc = "query"
    /\ HierarchyIdle
    /\ FilterIdle
    /\ RangeIdle
    /\ ExtractIdle
    /\ SearchIdle
    /\ PathIdle
    /\ WriteIdle
    /\ DocIdle
    /\ IndexIdle
    /\ CacheIdle
    /\ InjectorIdle
    /\ raw_query \in SeqsUpTo(QueryChars, MaxQueryLen)
    /\ validated = NotValidated
    /\ SingletonIdle

\* QueryValidator.validate_search_query(raw_query)
ValidateQuery ==
    /\ pc = "query"
    /\ ~validated.done
    /\ validated' = QueryValidatorValidate(raw_query)
    /\ UNCHANGED <<pc, hvars, fvars, rvars, xvars, svars, pathvars, wvars, dvars, ivars, cvars, jvars, raw_query, nvars>>

NextQuery == ValidateQuery

SpecQuery == InitQuery /\ [][NextQuery]_vars

-----------------------------------------------------------------------------
(* Singletons: factories/registry.py ComponentRegistry.__new__ (and         *)
(* factories/config.py ConfigurationManager.__new__, which has the same     *)
(* steps). A thread may be pre-empted between any two of them.              *)

InitSingleton ==
    /\ pc = "singleton"
    /\ HierarchyIdle
    /\ FilterIdle
    /\ RangeIdle
    /\ ExtractIdle
    /\ SearchIdle
    /\ PathIdle
    /\ WriteIdle
    /\ DocIdle
    /\ IndexIdle
    /\ CacheIdle
    /\ InjectorIdle
    /\ QueryIdle
    /\ SingletonIdle

\* the other variables of a step of __new__
SingletonFrame ==
    UNCHANGED <<pc, hvars, fvars, rvars, xvars, svars, pathvars, wvars, dvars, ivars, cvars,
                jvars, qvars>>

\* thread t calls ComponentRegistry()
CallNew(t) ==
    /\ pc = "singleton"
    /\ ctor[t].at = "idle"
    /\ ctor' = [ctor EXCEPT ![t] = [NotConstructing EXCEPT !.at = "hasattr"]]
    /\ UNCHANGED <<cls_lock, held, cls_instance, made>>
    /\ SingletonFrame

\* if not hasattr(cls, '_lock'):
HasLock(t) ==
    /\ pc = "singleton"
    /\ ctor[t].at = "hasattr"
    /\ ctor' = [ctor EXCEPT ![t].at = IF cls_lock = "unset" THEN "make_lock" ELSE "read_lock"]
    /\ UNCHANGED <<cls_lock, held, cls_instance, made>>
    /\ SingletonFrame

\* cls._lock = threading.Lock(): a new lock object replaces the attribute
MakeLock(t) ==
    /\ pc = "singleton"
    /\ ctor[t].at = "make_lock"
    /\ cls_lock' = t
    /\ ctor' = [ctor EXCEPT ![t].at = "read_lock"]
    /\ UNCHANGED <<held, cls_instance, made>>
    /\ SingletonFrame

\* with cls._lock: the attribute is read
ReadLock(t) ==
    /\ pc = "singleton"
    /\ ctor[t].at = "read_lock"
    /\ ctor' = [ctor EXCEPT ![t].at = "enter", ![t].lk = cls_lock]
    /\ UNCHANGED <<cls_lock, held, cls_instance, made>>
    /\ SingletonFrame

\* with cls._lock: the lock object that was read is acquired
EnterLock(t) ==
    /\ pc = "singleton"
    /\ ctor[t].at = "enter"
    /\ held[ctor[t].lk] = "free"
    /\ held' = [held EXCEPT ![ctor[t].lk] = t]
    /\ ctor' = [ctor EXCEPT ![t].at = "check"]
    /\ UNCHANGED <<cls_lock, cls_instance, made>>
    /\ SingletonFrame

\* if cls._instance is None:
CheckInstance(t) ==
    /\ pc = "singleton"
    /\ ctor[t].at = "check"
    /\ ctor' = [ctor EXCEPT ![t].at = IF cls_instance = "None" THEN "create" ELSE "exit"]
    /\ UNCHANGED <<cls_lock, held, cls_instance, made>>
    /\ SingletonFrame

\* cls._instance = super().__new__(cls)
CreateInstance(t) ==
    /\ pc = "singleton"
    /\ ctor[t].at = "create"
    /\ cls_instance' = t
    /\ made' = made \cup {t}
    /\ ctor' = [ctor EXCEPT ![t].at = "exit"]
    /\ UNCHANGED <<cls_lock, held>>
    /\ SingletonFrame

\* the end of the with-block (after cls._instance._components = {}): the lock
\* is released
ExitLock(t) ==
    /\ pc = "singleton"
    /\ ctor[t].at = "exit"
    /\ held' = [held EXCEPT ![ctor[t].lk] = "free"]
    /\ ctor' = [ctor EXCEPT ![t].at = "return"]
    /\ UNCHANGED <<cls_lock, cls_instance, made>>
    /\ SingletonFrame

\* return cls._instance
ReturnInstance(t) ==
    /\ pc = "singleton"
    /\ ctor[t].at = "return"
    /\ ctor' = [ctor EXCEPT ![t].at = "idle", ![t].lk = "unset", ![t].result = cls_instance]
    /\ UNCHANGED <<cls_lock, held, cls_instance, made>>
    /\ SingletonFrame

NextSingleton ==
    \/ \E t \in Threads : CallNew(t)
    \/ \E t \in Threads : HasLock(t)
    \/ \E t \in Threads : MakeLock(t)
    \/ \E t \in Threads : ReadLock(t)
    \/ \E t \in Threads : EnterLock(t)
    \/ \E t \in Threads : CheckInstance(t)
    \/ \E t \in Threads : CreateInstance(t)
    \/ \E t \in Threads : ExitLock(t)
    \/ \E t \in Threads : ReturnInstance(t)

SpecSingleton == InitSingleton /\ [][NextSingleton]_vars

-----------------------------------------------------------------------------
(* Properties of the page-range resolvers *)

\* the first entry after position i that is a peer or an ancestor of entry i
HasNextPeer(i) == \E j \in (i + 1)..Len(sections) : sections[j].level <= sections[i].level

NextPeer(i) ==
    CHOOSE j \in (i + 1)..Len(sections) :
        /\ sections[j].level <= sections[i].level
        /\ \A k \in (i + 1)..(j - 1) : sections[k].level > sections[i].level

\* the entries 1 (page 1), 1.1 (page 2), 1.2 (page 4), 2 (page 6) of an
\* 8-page document
ExampleSections ==
    << [level |-> 1, page |-> 1], [level |-> 2, page |-> 2],
       [level |-> 2, page |-> 4], [level |-> 1, page |-> 6] >>

ExampleRanges == << <<1, 5>>, <<2, 3>>, <<4, 5>>, <<6, 8>> >>

\* C7: the range of entry i starts at max(1, page) and, when a later entry of
\* level <= its own exists, ends one page before the first such entry (the
\* next entry itself when that is no deeper), never before its start; the
\* example outline over 8 pages resolves to 1-5, 2-3, 4-5, 6-8.
C7_RangeEndsBeforeNextPeer ==
    /\ \A i \in 1..Len(ranges.get) :
          /\ ranges.get[i][1] = Max(1, sections[i].page)
          /\ HasNextPeer(i) =>
                ranges.get[i][2]
                    = Max(ranges.get[i][1], sections[NextPeer(i)].page - 1)
    /\ (sections = ExampleSections /\ total_pages = 8 /\ ridx > Len(sections))
          => ranges.get = ExampleRanges

\* the range r of entry i stays out of its next peer-or-ancestor section
StaysBeforeNextPeer(r, i) ==
    HasNextPeer(i) =>
        IF sections[NextPeer(i)].page - 1 < r[1]
        THEN r[2] = r[1]
        ELSE r[2] < sections[NextPeer(i)].page

\* C8: for an entry with a later entry of level <= its own, the end page is
\* strictly less than the page of the first such entry, unless that would put
\* the end before the start, and then the range is the single start page.
C8_RangeCoverage ==
    /\ \A i \in 1..Len(ranges.get) : StaysBeforeNextPeer(ranges.get[i], i)
    /\ \A i \in 1..Len(ranges.calc) : StaysBeforeNextPeer(ranges.calc[i], i)

WellFormedRange(r) == 1 <= r[1] /\ r[1] <= r[2]

\* C9: every resolved page range has 1 <= start <= end, two consecutive
\* headings on the same page included.
C9_RangeWellFormed ==
    /\ \A i \in 1..Len(ranges.get) : WellFormedRange(ranges.get[i])
    /\ \A i \in 1..Len(ranges.calc) : WellFormedRange(ranges.calc[i])
    /\ \A i \in 1..Len(ranges.simple) : WellFormedRange(ranges.simple[i])

-----------------------------------------------------------------------------
(* Properties of content extraction *)

\* C10: extraction over n TOC entries returns exactly n content entries, the
\* i-th carrying the i-th TOC entry's section_id and title, on the sequential
\* and on the parallel paths, also when the extraction of single sections
\* fails (a failed section is not left out).
C10_OneEntryPerSection ==
    pc = "extracted" =>
        /\ Len(output) = Len(toc_entries)
        /\ \A i \in 1..Len(output) :
              /\ output[i] # NoEntry
              /\ output[i].section_id = toc_entries[i].section_id
              /\ output[i].title = toc_entries[i].title

\* the input positions whose extraction did not fail, in input order
Survivors == SelectSeq([i \in 1..Len(toc_entries) |-> i], LAMBDA i : i \notin fails)

\* some page of the section has text that is not blank
HasText(page_texts) == \E p \in 1..Len(page_texts) : Strip(page_texts[p]) # <<>>

\* C11: a content entry's has_content is true exactly when the text extracted
\* for its page range is non-empty after stripping whitespace; a section with
\* no extractable text gets has_content = false although its content holds a
\* placeholder.
C11_HasContentIffText ==
    pc = "extracted" =>
        \A k \in 1..Len(output) :
            k <= Len(Survivors) =>
                output[k].has_content = HasText(texts[Survivors[k]])

\* C12: on the parallel paths, whatever the order in which the workers
\* finish, the returned list holds the results in the order of the input
\* positions of their TOC entries, each result carrying the section_id (and
\* title) of the entry at its input position.
C12_ParallelKeepsInputOrder ==
    (pc = "extracted" /\ path \in {"parallel", "component", "simple"}) =>
        /\ Len(output) = Len(Survivors)
        /\ \A k \in 1..Len(output) :
              /\ output[k].section_id = toc_entries[Survivors[k]].section_id
              /\ output[k].title = toc_entries[Survivors[k]].title

\* a parallel run whose workers finished in another order than the input order
\* returned two results with different section ids
C12_Witness ==
    /\ pc = "extracted"
    /\ path = "parallel"
    /\ Len(finished) >= 2
    /\ finished[1] > finished[2]
    /\ Len(output) >= 2
    /\ output[1].section_id # output[2].section_id

-----------------------------------------------------------------------------
(* Properties of the search *)

\* the list of matches the searcher answered the last search with
Matches == response.matches.matches

\* the last search reached the index: the query was valid and the file there
Answered == response.success /\ response.matches.success

\* entry e matches query q: q is part of its section id or title, or every
\* word of q is a word of its title
EntryMatches(e, q) ==
    \/ MatchesQuery(e, Lower(q))
    \/ /\ Tokenize(q) # <<>>
       /\ Range(Tokenize(q)) \subseteq Range(Tokenize(e.title))

\* C13: a search whose query is the section_id of an indexed entry returns
\* that entry as the first result, and as the only result when no entry with
\* another section_id matches the query.
C13_ExactSectionIdFirst ==
    (Answered /\ \E i \in 1..Len(searcher.entries) :
                    searcher.entries[i].section_id = response.validated) =>
        /\ Matches # <<>>
        /\ Matches[1].section_id = response.validated
        /\ (\A i \in 1..Len(searcher.entries) :
               searcher.entries[i].section_id # response.validated
                   => ~EntryMatches(searcher.entries[i], response.validated))
              => \A k \in 1..Len(Matches) : Matches[k].section_id = response.validated

\* a search was made
Searched == response # NoResponse

\* s has no whitespace at either end
Trimmed(s) == s = <<>> \/ (s[1] \notin Whitespace /\ s[Len(s)] \notin Whitespace)

\* the number of characters of q between its leading and trailing whitespace
TrimmedLength(q) ==
    Cardinality({i \in 1..Len(q) :
                    /\ \E j \in 1..i : q[j] \notin Whitespace
                    /\ \E j \in i..Len(q) : q[j] \notin Whitespace})

\* C14: a query that is empty or whose trimmed length is below 2 is rejected
\* with a validation error (the search service returns success = false),
\* whatever the TOC file holds; a query of trimmed length >= 2 is passed on
\* trimmed.
C14_ShortQueryRejected ==
    Searched =>
        IF TrimmedLength(cli_query) < 2
        THEN /\ ~response.success
             /\ response.error = InvalidSearchQuery
             /\ response.matches.matches = <<>>
        ELSE /\ response.error # InvalidSearchQuery
             /\ Trimmed(response.validated)
             /\ Len(response.validated) = TrimmedLength(cli_query)
             /\ IsSubstring(response.validated, cli_query)

\* a one-character query padded with blanks was rejected although the TOC
\* file holds a row it would match
C14_Witness ==
    /\ cli_query = <<" ", "2", " ">>
    /\ ~response.success
    /\ toc_file.exists
    /\ \E i \in 1..Len(toc_file.rows) : toc_file.rows[i].section_id = <<"2">>

\* the searcher built its index from an earlier version of the file
Stale == searcher.is_built /\ toc_file.exists /\ toc_file.mtime > searcher.last_modified

\* a search with a valid query, the file being readable, on a stale searcher
\* leaves the index holding exactly the file's current rows and answers from
\* them
SearchRebuildsStaleIndex ==
    \A q \in Queries :
        (Stale /\ ValidQuery(q) /\ Search(q, FALSE)) =>
            /\ searcher'.last_modified = toc_file.mtime
            /\ searcher'.entries = toc_file.rows
            /\ response'.matches.matches
                 = IndexedSearch([is_built |-> TRUE, entries |-> toc_file.rows,
                                  word_index |-> SearchIndexBuild(toc_file.rows),
                                  last_modified |-> toc_file.mtime],
                                 ValidateSearchQuery(q))

\* C15: whenever the TOC file's modification time has advanced since the
\* searcher built its index, the next search rebuilds the index in full from
\* the file's current rows before answering, so the results reflect the
\* current file.
C15_StaleIndexRebuilt == [][SearchRebuildsStaleIndex]_vars

\* C16: a search issued while the TOC file does not exist is reported as a
\* failure: the service result has success = false with the error telling to
\* run parse first, and the command ends with exit code 1; it is never
\* reported as a successful search.
C16_MissingFileIsFailure ==
    (Searched /\ response.matches.error = NotFoundRunParseFirst) =>
        /\ ~response.success
        /\ response.error = NotFoundRunParseFirst
        /\ response.returned
        /\ response.code = 1

-----------------------------------------------------------------------------
(* Properties of the output paths *)

\* the name is an absolute path
IsAbsolute(name) == name # <<>> /\ name[1] = "/"

\* the name has a parent-directory traversal, plain or percent-encoded
HasParentTraversal(name) ==
    \/ IsSubstring(DotDot, name)
    \/ IsSubstring(<<"%", "2", "e", "%", "2", "e", "%", "2", "f">>, name)

\* the name has a path separator
HasSeparator(name) == IsSubstring(<<"/">>, name) \/ IsSubstring(<<"\\">>, name)

\* C17: a file name that is an absolute path, has a parent-directory
\* traversal (with '/', with '\' or percent-encoded) or has a path separator
\* is rejected with an error before any file is opened; nothing is opened
\* under such a name.
C17_UnsafeNamesRejected ==
    (IsAbsolute(filename) \/ HasParentTraversal(filename) \/ HasSeparator(filename))
        => opened = {}

-----------------------------------------------------------------------------
(* Properties of a parse run *)

\* C18: two parse runs over the same PDF write the same TOC rows and the
\* same content rows: no field of a written record depends on the wall clock.
C18_ParseTwiceSameFiles ==
    Len(written) >= 2 => written[1] = written[2]

-----------------------------------------------------------------------------
(* Properties of the document handle *)

\* an operation has returned or failed
Over(o) == at[o] \in {"returned", "raised"}

\* C19: when an operation that opened the PDF has returned or failed, on the
\* success path and on every error path, no handle it opened is still open.
C19_HandleClosedWhenOver ==
    \A o \in Openers : Over(o) => handles[o] = 0

-----------------------------------------------------------------------------
(* Properties of TOCEntry.get_depth *)

\* the ids of the TOCEntry objects PDFParser._create_toc_entry made
CreatedIds == {pdf.raw[i].section_id : i \in 1..Len(pdf.raw)}

\* C20: get_depth of an extracted entry is the number of dot-separated
\* components of its section_id, and 1 when the section_id is empty.
C20_GetDepthCountsComponents ==
    \A id \in CreatedIds :
        GetDepth(id) = IF id = <<>> THEN 1 ELSE Components(id)

-----------------------------------------------------------------------------
(* Properties of the parent stack *)

\* the parent stacks of PDFParser._build_hierarchy and TOCParser._build_hierarchy
ParentStacks == {pdf.stack, toc.stack}

\* C21: at every step of the hierarchy builder the parent stack's element at
\* position i (counted from 1) is a section_id of depth i, so right after an
\* entry of depth d is pushed the stack has exactly d elements.
C21_StackPositionIsDepth ==
    \A stack \in ParentStacks :
        \A i \in 1..Len(stack) : Components(stack[i]) = i

-----------------------------------------------------------------------------
(* Properties of the search package *)

\* the title of the entry at 0-based index k contains word w
TitleHasWord(k, w) ==
    /\ k < Len(indexer.entries)
    /\ \E i \in 1..Len(Tokenize(indexer.entries[k + 1].title)) :
          Tokenize(indexer.entries[k + 1].title)[i] = w

\* C22: a text search whose query has several tokens returns as text matches
\* only entries whose title contains every one of the tokens.
C22_TextMatchHasEveryToken ==
    (Len(Tokenize(text_hits.query)) >= 2 /\ ~text_hits.raised) =>
        \A k \in text_hits.matches :
            \A w \in Range(Tokenize(text_hits.query)) : TitleHasWord(k, w)

\* C27: every row index stored in word_index, section_index and
\* section_index_lower is a position of entries and points at the row it was
\* derived from.
C27_IndexPointsAtItsRow ==
    /\ \A p \in indexer.section_index :
          /\ p[2] < Len(indexer.entries)
          /\ indexer.entries[p[2] + 1].section_id = p[1]
    /\ \A p \in indexer.section_index_lower :
          /\ p[2] < Len(indexer.entries)
          /\ Lower(indexer.entries[p[2] + 1].section_id) = p[1]
    /\ \A p \in indexer.word_index : TitleHasWord(p[2], p[1])

-----------------------------------------------------------------------------
(* Properties of the end page at the end of the list *)

\* every entry after position i is deeper than entry i (so is it for the last)
OnlyDeeperAfter(i) ==
    \A j \in (i + 1)..Len(sections) : sections[j].level > sections[i].level

\* C23: the last retained entry, and every entry followed only by deeper
\* entries up to the end of the list, gets the document's total page count as
\* its end page.
C23_OpenEndedRangeEndsAtLastPage ==
    \A i \in 1..Len(ranges.get) :
        OnlyDeeperAfter(i) => ranges.get[i][2] = total_pages

-----------------------------------------------------------------------------
(* Properties of the in-memory cache *)

\* no thread is inside a cache call
CacheQuiet == \A t \in Threads : th[t].at = "idle"

\* C24: after any sequence of get and set calls, interleaved from several
\* threads or not, the cache holds at most max_size entries and its value map
\* and its access-time map have the same keys.
C24_CacheBoundedAndAligned ==
    CacheQuiet =>
        /\ Cardinality(DOMAIN cache) <= CacheMaxSize
        /\ DOMAIN cache = DOMAIN access_times

-----------------------------------------------------------------------------
(* Properties of the word count *)

\* the number of whitespace-delimited tokens of a string
WhitespaceTokens(content) ==
    Cardinality({i \in 1..Len(content) :
                    /\ content[i] \notin Whitespace
                    /\ (i = 1 \/ content[i - 1] \in Whitespace)})

\* C25: the word_count of every content entry returned is the number of
\* whitespace-delimited tokens of its content, one-character words and tokens
\* with punctuation counting once each.
C25_WordCountIsTokenCount ==
    pc = "extracted" =>
        \A k \in 1..Len(output) :
            output[k] # NoEntry =>
                output[k].word_count = WhitespaceTokens(output[k].content)

-----------------------------------------------------------------------------
(* Properties of the dependency injector *)

\* thread t is inside get and waits for the lock at a nested with self._lock
WaitsInsideGet(t) == inj[t].at \in {"singleton_acquire", "create_acquire"}

\* C26: a thread that called get never waits for the injector's lock while
\* it holds that lock itself, so get goes on to return or raise.
C26_GetNeverWaitsForOwnLock ==
    \A t \in Threads : ~(WaitsInsideGet(t) /\ lock = t)

-----------------------------------------------------------------------------
(* Properties of the two extraction paths *)

-----------------------------------------------------------------------------
(* Properties of the query validator *)

\* C29: every string validate_search_query returns has at least
\* MIN_QUERY_LENGTH characters and none of the characters the validator strips.
C29_ReturnedQueryLongAndClean ==
    (validated.done /\ ~validated.raised) =>
        /\ Len(validated.value) >= MinQueryLength
        /\ \A i \in 1..Len(validated.value) : validated.value[i] \notin DangerousChars

-----------------------------------------------------------------------------
(* Properties of the singletons *)

\* C30: constructing ComponentRegistry from several threads, the very first
\* calls included, never makes two instances, and every caller is handed the
\* same one.
C30_OneInstanceForAll ==
    /\ Cardinality(made) <= 1
    /\ \A t, u \in Threads :
          (ctor[t].result # "None" /\ ctor[u].result # "None") =>
              ctor[t].result = ctor[u].result

====
